---- MODULE Spec2Model ----
(***************************************************************************)
(* State-machine model of the floating-element logic of drk-ui-components: *)
(* the useDisclosure hook, the Dropdown and CustomMultiSelect comboboxes,  *)
(* the Popover and Sheet panels, the Modal's focus handling, the panel     *)
(* position of the comboboxes, the context guards of the compound          *)
(* components, the trigger label of CustomMultiSelect, the ToastProvider   *)
(* with its Toasts, the InfoTooltip and the Sidebar's user menu.           *)
(*                                                                         *)
(* Each component instance is one record-valued variable whose fields are  *)
(* the component's props, its useState cells, and the global listeners it  *)
(* has registered.  An action is one event handler together with the       *)
(* re-render and the effect run React performs after it.  The hook is the  *)
(* exception: its calls and its re-render are separate actions, because    *)
(* several calls can be made from one event handler before React renders.  *)
(***************************************************************************)
EXTENDS Integers, Sequences, FiniteSets, Bags, TLC

VARIABLES hook, dropdown, cms, popover, sheet, filt, modal, place, ev,
          guard, caption, toast, sidebar, tip

vars == <<hook, dropdown, cms, popover, sheet, filt, modal, place, ev,
          guard, caption, toast, sidebar, tip>>

(***************************************************************************)
(* Bounds of the model.                                                    *)
(***************************************************************************)
MaxCalls == 3

(***************************************************************************)
(* An optional boolean prop is a set: {} is undefined, {b} is the value b. *)
(***************************************************************************)
OptBool == {{}, {TRUE}, {FALSE}}

\* The value of an instance variable while that instance does not exist.
Unmounted == [mounted |-> FALSE]

\* The document event the last step delivered: its type, its target (for a
\* mousedown) or key (for a keydown), whether the key was pressed on the
\* focused <input>, and whether the panel was open when it arrived.
NoEvent == [type |-> "none", detail |-> "", onInput |-> FALSE, wasOpen |-> FALSE]

Event(type, detail, onInput, wasOpen) ==
    [type |-> type, detail |-> detail, onInput |-> onInput, wasOpen |-> wasOpen]

Boolean(v) == TRUE \in v

\* ------------------------------------------------------------------------
\* useDisclosure (src/src/hooks/useDisclosure.ts)
\* ------------------------------------------------------------------------

NoCall == [op |-> "none", arg |-> FALSE, seen |-> FALSE]

\* const isControlled = openProp !== undefined;
isControlled(h) == h.openProp # {}

\* const isOpen = isControlled ? Boolean(openProp) : internalOpen;
\* evaluated by a render: the value the callbacks of that render close over.
renderIsOpen(h) == IF isControlled(h) THEN Boolean(h.openProp) ELSE h.internalOpen

\* Mutant: setOpen writes the internal state in controlled mode as well.
setOpen_ignoresControlled(h, next) ==
    [h EXCEPT !.internalOpen = next,
              !.emitted = IF h.hasOnOpenChange THEN <<next>> ELSE <<>>]

\* Mutant: setOpen skips the notification when next is the current isOpen.
setOpen_deduplicates(h, next) ==
    [h EXCEPT !.internalOpen = IF ~isControlled(h) THEN next ELSE @,
              !.emitted = IF h.hasOnOpenChange /\ next # h.isOpen
                          THEN <<next>> ELSE <<>>]

\* const setOpen = useCallback((next) => { if (!isControlled)
\*   setInternalOpen(next); onOpenChange?.(next); }, ...)
\* internalOpen holds the value of the last queued state update; emitted is
\* the list of onOpenChange arguments of this call.
setOpen(h, next) ==
    [h EXCEPT !.internalOpen = IF ~isControlled(h) THEN next ELSE @,
              !.emitted = IF h.hasOnOpenChange THEN <<next>> ELSE <<>>]

\* Bookkeeping shared by the four callbacks: the call is recorded together
\* with the isOpen it saw, and replayed on a plain boolean.
Called(h, op, arg, plain) ==
    [h EXCEPT !.call = [op |-> op, arg |-> arg, seen |-> hook.isOpen],
              !.calls = @ + 1,
              !.dirty = TRUE,
              !.replay = plain]

\* const open = useCallback(() => setOpen(true), [setOpen]);
open ==
    /\ hook.calls < MaxCalls
    /\ hook' = Called(setOpen(hook, TRUE), "open", FALSE, TRUE)
    /\ UNCHANGED <<dropdown, cms, popover, sheet, filt, modal, place, ev,
                 guard, caption, toast, sidebar, tip>>

\* const close = useCallback(() => setOpen(false), [setOpen]);
close ==
    /\ hook.calls < MaxCalls
    /\ hook' = Called(setOpen(hook, FALSE), "close", FALSE, FALSE)
    /\ UNCHANGED <<dropdown, cms, popover, sheet, filt, modal, place, ev,
                 guard, caption, toast, sidebar, tip>>

\* const toggle = useCallback(() => setOpen(!isOpen), [isOpen, setOpen]);
\* isOpen is the value of the render that created the callback.
toggle ==
    /\ hook.calls < MaxCalls
    /\ hook' = Called(setOpen(hook, ~hook.isOpen), "toggle", FALSE, ~hook.replay)
    /\ UNCHANGED <<dropdown, cms, popover, sheet, filt, modal, place, ev,
                 guard, caption, toast, sidebar, tip>>

\* setOpen(next) called directly by the consumer of the hook.
callSetOpen ==
    /\ hook.calls < MaxCalls
    /\ \E next \in BOOLEAN :
          hook' = Called(setOpen(hook, next), "setOpen", next, next)
    /\ UNCHANGED <<dropdown, cms, popover, sheet, filt, modal, place, ev,
                 guard, caption, toast, sidebar, tip>>

\* A re-render of the component using the hook.  A controlled caller passes
\* the open prop of its choice; the mode itself never changes.
hookRender ==
    /\ \E v \in BOOLEAN :
          LET h == [hook EXCEPT !.openProp = IF isControlled(hook) THEN {v} ELSE {}]
          IN hook' = [h EXCEPT !.isOpen = renderIsOpen(h),
                               !.dirty = FALSE,
                               !.call = NoCall,
                               !.emitted = <<>>]
    /\ UNCHANGED <<dropdown, cms, popover, sheet, filt, modal, place, ev,
                 guard, caption, toast, sidebar, tip>>

\* const [internalOpen, setInternalOpen] = useState(defaultOpen); first render.
HookInit ==
    \E op \in OptBool, d \in BOOLEAN, cb \in BOOLEAN :
        hook = [openProp |-> op, defaultOpen |-> d, hasOnOpenChange |-> cb,
                internalOpen |-> d,
                isOpen |-> IF op # {} THEN Boolean(op) ELSE d,
                dirty |-> FALSE, replay |-> d, call |-> NoCall,
                emitted |-> <<>>, calls |-> 0]

HookNext == open \/ close \/ toggle \/ callSetOpen \/ hookRender


InitDisclosure ==
    /\ HookInit
    /\ dropdown = Unmounted
    /\ cms = Unmounted
    /\ popover = Unmounted
    /\ sheet = Unmounted
    /\ filt = Unmounted
    /\ modal = Unmounted
    /\ place = Unmounted
    /\ ev = NoEvent
    /\ guard = Unmounted
    /\ caption = Unmounted
    /\ toast = Unmounted
    /\ sidebar = Unmounted
    /\ tip = Unmounted

SpecDisclosure == InitDisclosure /\ [][HookNext]_vars

\* C1: for an uncontrolled hook, once the calls made so far have been
\* rendered, isOpen equals the replay of the same calls on a plain boolean
\* that starts at defaultOpen, whether or not a render separated the calls.
C1_ReplayOnPlainBoolean ==
    (~isControlled(hook) /\ ~hook.dirty) => hook.isOpen = hook.replay

\* C2: for a controlled hook, isOpen is always the supplied open prop, and a
\* call to open, close, toggle or setOpen leaves isOpen, the internal state
\* and the prop as they were.
C2_ControlledCallsChangeNothing ==
    /\ [](isControlled(hook) => hook.isOpen = Boolean(hook.openProp))
    /\ [][(isControlled(hook) /\ hook'.calls # hook.calls)
            => /\ hook'.isOpen = hook.isOpen
               /\ hook'.internalOpen = hook.internalOpen
               /\ hook'.openProp = hook.openProp]_vars

C2_Witness ==
    /\ isControlled(hook)
    /\ hook.call.op = "toggle"
    /\ hook.calls >= 2
    /\ hook.emitted = <<TRUE>>
    /\ hook.isOpen = FALSE

\* The value a recorded call asks for.
Requested(c) ==
    CASE c.op = "open" -> TRUE
      [] c.op = "close" -> FALSE
      [] c.op = "toggle" -> ~c.seen
      [] OTHER -> c.arg

\* C3: every call of open, close, toggle or setOpen on a hook that was given
\* an onOpenChange invokes it exactly once, with the requested value, in
\* both modes and also when the requested value is the current isOpen.
C3_NotifiesOncePerCall ==
    (hook.call.op # "none" /\ hook.hasOnOpenChange)
        => hook.emitted = <<Requested(hook.call)>>

C3_Witness ==
    /\ hook.hasOnOpenChange
    /\ ~isControlled(hook)
    /\ hook.call.op = "setOpen"
    /\ hook.call.arg = hook.call.seen
    /\ hook.emitted = <<hook.call.arg>>

\* ------------------------------------------------------------------------
\* Strings, options and listeners shared by Dropdown and CustomMultiSelect
\* ------------------------------------------------------------------------

MaxOptions == 2

MaxQueryLen == 2

MaxTimers == 1

\* A string is a sequence of characters over a small alphabet with one
\* letter in both cases.
Chars == {"a", "A", "b"}

Strings(n) == UNION {[1..k -> Chars] : k \in 0..n}

\* String.prototype.toLowerCase, character by character.
toLowerCase(str) ==
    [i \in 1..Len(str) |-> IF str[i] = "A" THEN "a" ELSE str[i]]

\* String.prototype.includes: q occurs in str at some offset.
includes(str, q) ==
    \E i \in 0..(Len(str) - Len(q)) : SubSeq(str, i + 1, i + Len(q)) = q

\* The text of the i-th option of an instance under examination.
TextTable == << <<"A", "b">>, <<"a">>, <<"b">> >>

TextAt(i) == TextTable[((i - 1) % Len(TextTable)) + 1]

\* A value of type DropdownOption | null | undefined.
Option(id, label) == [kind |-> "option", id |-> id, label |-> label]

NullOption == [kind |-> "null", id |-> 0, label |-> <<>>]

UndefinedOption == [kind |-> "undefined", id |-> 0, label |-> <<>>]

\* The object { id: "", label: "" }; the id "" is written 0.
EmptyOption == Option(0, <<>>)

Truthy(o) == o.kind = "option"

\* number | null, where the number may be NaN.
Null == [kind |-> "null", n |-> 0]

NaN == [kind |-> "NaN", n |-> 0]

Num(n) == [kind |-> "num", n |-> n]

\* The JavaScript remainder a % n of two integers: NaN for n = 0, and the
\* sign of the dividend otherwise.
JsRem(a, n) ==
    IF n = 0 THEN NaN
    ELSE IF a >= 0 THEN Num(a % n) ELSE Num(-((-a) % n))

\* array[index]: undefined outside 0 .. length-1 and for NaN.
ElementAt(array, index) ==
    IF index.kind = "num" /\ index.n >= 0 /\ index.n < Len(array)
    THEN array[index.n + 1] ELSE UndefinedOption

\* The global listeners of an instance are a bag of "target:type" keys.
addEventListener(listeners, key) == listeners (+) SetToBag({key})

removeEventListener(listeners, key) == listeners (-) SetToBag({key})

ListenerCount(listeners) == BagCardinality(listeners)

\* ------------------------------------------------------------------------
\* Dropdown (src/src/components/Modal.tsx)
\* ------------------------------------------------------------------------

\* Mutant: the filter compares the label with the query case-sensitively.
Dropdown_filteredOptions_caseSensitive(options, searchQuery) ==
    SelectSeq(options, LAMBDA option : includes(option.label, searchQuery))

\* options.filter(option => option.label.toLowerCase()
\*                            .includes(searchQuery.toLowerCase()))
Dropdown_filteredOptions(options, searchQuery) ==
    SelectSeq(options, LAMBDA option :
        includes(toLowerCase(option.label), toLowerCase(searchQuery)))

\* onSelect(option), with a caller that stores the value as selectedOption.
Dropdown_onSelect(d, option) ==
    [d EXCEPT !.emitted = Append(@, [fn |-> "onSelect", arg |-> option]),
              !.selectedOption = option]

\* setIsDropdownOpen(false); setSearchQuery("");
Dropdown_closeAndReset(d) ==
    [d EXCEPT !.isDropdownOpen = FALSE, !.searchQuery = <<>>]

\* Mutant: the handler tests the panel only, not the trigger.
Dropdown_handleClickOutside_ignoresTrigger(d, target) ==
    IF d.isDropdownOpen /\ target # "panel"
    THEN [d EXCEPT !.isDropdownOpen = FALSE, !.searchQuery = <<>>]
    ELSE d

\* handleClickOutside: dropdownRef.current is the panel, rendered only
\* while open; triggerRef.current is the wrapper of a mounted instance.
Dropdown_handleClickOutside(d, target) ==
    IF d.isDropdownOpen /\ target # "panel" /\ d.mounted /\ target # "trigger"
    THEN Dropdown_closeAndReset(d)
    ELSE d

\* handleKeyboardNavigation of the render whose state is d.
Dropdown_handleKeyboardNavigation(d, key) ==
    IF ~d.isDropdownOpen THEN d
    ELSE LET filteredOptions == Dropdown_filteredOptions(d.options, d.searchQuery)
             length == Len(filteredOptions)
             prev == d.highlightedIndex
         IN CASE key = "ArrowDown" ->
                   [d EXCEPT !.highlightedIndex =
                       IF prev = Null THEN Num(0)
                       ELSE IF prev = NaN THEN NaN
                       ELSE JsRem(prev.n + 1, length)]
              [] key = "ArrowUp" ->
                   [d EXCEPT !.highlightedIndex =
                       IF prev = Null THEN Num(length - 1)
                       ELSE IF prev = NaN THEN NaN
                       ELSE JsRem(prev.n - 1 + length, length)]
              [] key = "Enter" /\ prev # Null ->
                   Dropdown_closeAndReset(
                       Dropdown_onSelect(d, ElementAt(filteredOptions, prev)))
              [] key = "Escape" -> Dropdown_closeAndReset(d)
              [] key = "Tab" -> Dropdown_closeAndReset(d)
              [] OTHER -> d

\* onKeyDown of the <input>.
Dropdown_inputOnKeyDown(d, key) ==
    IF key \in {"Tab", "Escape"} THEN Dropdown_closeAndReset(d) ELSE d

\* toggleDropdown
Dropdown_toggleDropdown(d) ==
    IF d.disabled THEN d
    ELSE LET t == [d EXCEPT !.isDropdownOpen = ~d.isDropdownOpen]
         IN IF ~d.isDropdownOpen THEN [t EXCEPT !.searchQuery = <<>>] ELSE t

\* clearSelection
Dropdown_clearSelection(d) ==
    LET c == [Dropdown_onSelect(d, EmptyOption) EXCEPT !.searchQuery = <<>>]
    IN IF d.hasOnClear
       THEN [c EXCEPT !.emitted = Append(@, [fn |-> "onClear", arg |-> NullOption])]
       ELSE c

\* value of the <input>: isDropdownOpen ? searchQuery : selectedOption?.label || ""
Dropdown_inputValue(d) ==
    IF d.isDropdownOpen THEN d.searchQuery
    ELSE IF Truthy(d.selectedOption) THEN d.selectedOption.label ELSE <<>>

\* The clear button is rendered: selectedOption && !isDropdownOpen
Dropdown_clearButtonShown(d) == Truthy(d.selectedOption) /\ ~d.isDropdownOpen

\* Mutant: the keydown effect has no cleanup, so a changed dependency adds a
\* handler next to the old one.
Dropdown_effects_withoutCleanup(d, n) ==
    LET keydownDeps(x) == <<x.isDropdownOpen, x.searchQuery, x.highlightedIndex>>
    IN [n EXCEPT !.listeners =
            IF keydownDeps(d) # keydownDeps(n)
            THEN addEventListener(d.listeners, "document:keydown")
            ELSE d.listeners]

\* The effects React runs after the render of state n that follows the
\* render of state d: the keydown effect (deps isDropdownOpen, searchQuery,
\* options, highlightedIndex, onSelect), the position effect and the focus
\* effect (deps isDropdownOpen).  The mousedown effect has no deps.
Dropdown_effects(d, n) ==
    LET keydownDeps(x) == <<x.isDropdownOpen, x.searchQuery, x.highlightedIndex>>
        l1 == IF keydownDeps(d) # keydownDeps(n)
              THEN addEventListener(
                       removeEventListener(d.listeners, "document:keydown"),
                       "document:keydown")
              ELSE d.listeners
        l2 == IF d.isDropdownOpen /\ ~n.isDropdownOpen
              THEN removeEventListener(
                       removeEventListener(l1, "window:scroll"), "window:resize")
              ELSE l1
        l3 == IF ~d.isDropdownOpen /\ n.isDropdownOpen
              THEN addEventListener(
                       addEventListener(l2, "window:scroll"), "window:resize")
              ELSE l2
    IN [n EXCEPT !.listeners = l3,
                 !.inputFocused = IF ~d.isDropdownOpen /\ n.isDropdownOpen
                                  THEN TRUE ELSE @]

\* An event starts with no notification made.
Dropdown_event(d) == [d EXCEPT !.emitted = <<>>]

\* The other instances are untouched by an event of this one.
Dropdown_Others == UNCHANGED <<hook, cms, popover, sheet, filt, modal, place,
                 guard, caption, toast, sidebar, tip>>

\* An event other than a document mousedown or keydown.
Dropdown_Frame == Dropdown_Others /\ ev' = NoEvent

\* The instance after a mousedown on target: the document listener runs.
Dropdown_afterMouseDown(d, target) ==
    Dropdown_effects(d, Dropdown_handleClickOutside(Dropdown_event(d), target))

\* mousedown anywhere in the document.
Dropdown_MouseDown ==
    /\ dropdown.mounted
    /\ \E target \in {"outside", "trigger"} \cup
                     (IF dropdown.isDropdownOpen THEN {"panel"} ELSE {}) :
          /\ dropdown' = Dropdown_afterMouseDown(dropdown, target)
          /\ ev' = Event("mousedown", target, FALSE, dropdown.isDropdownOpen)
    /\ Dropdown_Others

Keys == {"ArrowDown", "ArrowUp", "Enter", "Escape", "Tab", "x"}

\* The instance after a keydown.  When the <input> has focus its onKeyDown
\* runs and so does the document listener; both belong to the render of d
\* and write the same constants for Tab and Escape, so the document
\* listener is evaluated on d and the input's writes are applied to its
\* result.
Dropdown_afterKeyDown(d, key, onInput) ==
    LET d1 == Dropdown_handleKeyboardNavigation(Dropdown_event(d), key)
    IN Dropdown_effects(d,
           IF onInput THEN Dropdown_inputOnKeyDown(d1, key) ELSE d1)

\* keydown, on the focused <input> or elsewhere in the document.
Dropdown_KeyDown ==
    /\ dropdown.mounted
    /\ \E key \in Keys, onInput \in BOOLEAN :
          /\ onInput => dropdown.inputFocused
          /\ dropdown' = Dropdown_afterKeyDown(dropdown, key, onInput)
          /\ ev' = Event("keydown", key, onInput, dropdown.isDropdownOpen)
    /\ Dropdown_Others

\* onChange of the <input>: the user edits the text.
Dropdown_Change ==
    /\ dropdown.mounted /\ dropdown.inputFocused /\ ~dropdown.disabled
    /\ \E value \in Strings(MaxQueryLen) :
          /\ value # dropdown.searchQuery
          /\ dropdown' = Dropdown_effects(dropdown,
                 [Dropdown_event(dropdown) EXCEPT !.searchQuery = value])
    /\ Dropdown_Frame

\* onFocus of the <input>: !disabled && setIsDropdownOpen(true)
Dropdown_Focus ==
    /\ dropdown.mounted /\ ~dropdown.inputFocused /\ ~dropdown.disabled
    /\ dropdown' = Dropdown_effects(dropdown,
           [Dropdown_event(dropdown) EXCEPT !.inputFocused = TRUE,
                                            !.isDropdownOpen = TRUE])
    /\ Dropdown_Frame

\* onBlur of the <input>: setTimeout(..., 150)
Dropdown_Blur ==
    /\ dropdown.mounted /\ dropdown.inputFocused
    /\ dropdown.blurTimers < MaxTimers
    /\ dropdown' = [Dropdown_event(dropdown) EXCEPT !.inputFocused = FALSE,
                                                    !.blurTimers = @ + 1]
    /\ Dropdown_Frame

\* The blur timer fires.  No <li role="option"> is focusable, so
\* document.activeElement is never inside one.  State updates of an
\* unmounted component are dropped.
Dropdown_BlurTimeout ==
    /\ dropdown # Unmounted
    /\ dropdown.blurTimers > 0
    /\ LET d == [Dropdown_event(dropdown) EXCEPT !.blurTimers = @ - 1]
       IN dropdown' = IF dropdown.mounted
                      THEN Dropdown_effects(dropdown, Dropdown_closeAndReset(d))
                      ELSE d
    /\ Dropdown_Frame

\* onClick of an <li> of the rendered list.
Dropdown_OptionClick ==
    /\ dropdown.mounted /\ dropdown.isDropdownOpen
    /\ LET filteredOptions ==
               Dropdown_filteredOptions(dropdown.options, dropdown.searchQuery)
       IN \E index \in 1..Len(filteredOptions) :
             dropdown' = Dropdown_effects(dropdown,
                 Dropdown_closeAndReset(
                     Dropdown_onSelect(Dropdown_event(dropdown),
                                       filteredOptions[index])))
    /\ Dropdown_Frame

\* onClick of the chevron button.
Dropdown_Toggle ==
    /\ dropdown.mounted /\ ~dropdown.disabled
    /\ dropdown' = Dropdown_effects(dropdown,
           Dropdown_toggleDropdown(Dropdown_event(dropdown)))
    /\ Dropdown_Frame

\* onClick of the clear button, rendered when selectedOption && !isDropdownOpen.
Dropdown_Clear ==
    /\ dropdown.mounted /\ ~dropdown.disabled
    /\ Dropdown_clearButtonShown(dropdown)
    /\ dropdown' = Dropdown_effects(dropdown,
           Dropdown_clearSelection(Dropdown_event(dropdown)))
    /\ Dropdown_Frame

\* Unmount: every effect cleanup runs; pending timers are not cleared.
Dropdown_Unmount ==
    /\ dropdown.mounted
    /\ dropdown' = [Dropdown_event(dropdown) EXCEPT
                       !.mounted = FALSE, !.listeners = EmptyBag]
    /\ Dropdown_Frame

\* The instance after its first render and effect run.
Dropdown_Init ==
    \E n \in 0..MaxOptions, disabled \in BOOLEAN, hasOnClear \in BOOLEAN :
        dropdown = [mounted |-> TRUE,
                    options |-> [i \in 1..n |-> Option(i, TextAt(i))],
                    disabled |-> disabled,
                    hasOnClear |-> hasOnClear,
                    selectedOption |-> NullOption,
                    isDropdownOpen |-> FALSE,
                    searchQuery |-> <<>>,
                    highlightedIndex |-> Null,
                    inputFocused |-> FALSE,
                    blurTimers |-> 0,
                    listeners |-> SetToBag({"document:mousedown", "document:keydown"}),
                    emitted |-> <<>>]

Dropdown_Next ==
    \/ Dropdown_MouseDown \/ Dropdown_KeyDown \/ Dropdown_Change
    \/ Dropdown_Focus \/ Dropdown_Blur \/ Dropdown_BlurTimeout
    \/ Dropdown_OptionClick \/ Dropdown_Toggle \/ Dropdown_Clear
    \/ Dropdown_Unmount

InitDropdown ==
    /\ Dropdown_Init
    /\ hook = Unmounted
    /\ cms = Unmounted
    /\ popover = Unmounted
    /\ sheet = Unmounted
    /\ filt = Unmounted
    /\ modal = Unmounted
    /\ place = Unmounted
    /\ ev = NoEvent
    /\ guard = Unmounted
    /\ caption = Unmounted
    /\ toast = Unmounted
    /\ sidebar = Unmounted
    /\ tip = Unmounted

SpecDropdown == InitDropdown /\ [][Dropdown_Next]_vars

\* ------------------------------------------------------------------------
\* CustomMultiSelect (src/src/components/CustomMultiSelect.tsx)
\* ------------------------------------------------------------------------

MaxSelected == 2

\* Array.prototype.includes on an array of identifiers.
arrayIncludes(array, id) == \E i \in 1..Len(array) : array[i] = id

\* The identifiers an array holds, as a set.
Members(array) == {array[i] : i \in 1..Len(array)}

\* options.filter(option => option.name.toLowerCase()
\*                            .includes(searchTerm.toLowerCase()))
CMS_filteredOptions(options, searchTerm) ==
    SelectSeq(options, LAMBDA option :
        includes(toLowerCase(option.name), toLowerCase(searchTerm)))

\* onSelect(ids), with a caller that feeds the array back as selectedItems.
CMS_onSelect(c, ids) ==
    [c EXCEPT !.emitted = Append(@, [fn |-> "onSelect", arg |-> ids]),
              !.selectedItems = ids]

\* Mutant: a commit in multiple mode always appends the identifier.
CMS_handleSelection_alwaysAppends(c, id) ==
    IF c.multiple
    THEN CMS_onSelect(c, Append(c.selectedItems, id))
    ELSE [CMS_onSelect(c, <<id>>) EXCEPT !.isOpen = FALSE]

\* Mutant: a commit closes the panel and clears the term in both modes.
CMS_handleSelection_closes(c, id) ==
    LET n == IF ~c.multiple THEN CMS_onSelect(c, <<id>>)
             ELSE IF arrayIncludes(c.selectedItems, id)
             THEN CMS_onSelect(c, SelectSeq(c.selectedItems,
                                            LAMBDA selected : selected # id))
             ELSE CMS_onSelect(c, Append(c.selectedItems, id))
    IN [n EXCEPT !.isOpen = FALSE, !.searchTerm = <<>>]

\* handleSelection
CMS_handleSelection(c, id) ==
    IF c.multiple
    THEN IF arrayIncludes(c.selectedItems, id)
         THEN CMS_onSelect(c, SelectSeq(c.selectedItems,
                                        LAMBDA selected : selected # id))
         ELSE CMS_onSelect(c, Append(c.selectedItems, id))
    ELSE [CMS_onSelect(c, <<id>>) EXCEPT !.isOpen = FALSE]

\* handleClickOutside: dropdownRef.current is the panel, rendered only
\* while open; triggerRef.current is the root of a mounted instance.
CMS_handleClickOutside(c, target) ==
    IF c.isOpen /\ target # "panel" /\ c.mounted /\ target # "trigger"
    THEN [c EXCEPT !.isOpen = FALSE, !.searchTerm = <<>>]
    ELSE c

\* toggleDropdown
CMS_toggleDropdown(c) == [c EXCEPT !.isOpen = ~c.isOpen]

\* handleInputChange
CMS_handleInputChange(c, value) == [c EXCEPT !.searchTerm = value]

\* The position effect (deps isOpen) after the render of n that follows
\* the render of c.  The mousedown effect has no deps.
CMS_effects(c, n) ==
    LET l1 == IF c.isOpen /\ ~n.isOpen
              THEN removeEventListener(
                       removeEventListener(c.listeners, "window:scroll"),
                       "window:resize")
              ELSE c.listeners
        l2 == IF ~c.isOpen /\ n.isOpen
              THEN addEventListener(
                       addEventListener(l1, "window:scroll"), "window:resize")
              ELSE l1
    IN [n EXCEPT !.listeners = l2]

CMS_event(c) == [c EXCEPT !.emitted = <<>>]

\* The other instances are untouched by an event of this one.
CMS_Others == UNCHANGED <<hook, dropdown, popover, sheet, filt, modal, place,
                 guard, caption, toast, sidebar, tip>>

\* An event other than a document mousedown or keydown.
CMS_Frame == CMS_Others /\ ev' = NoEvent

\* The instance after a mousedown on target: the document listener runs.
CMS_afterMouseDown(c, target) ==
    CMS_effects(c, CMS_handleClickOutside(CMS_event(c), target))

\* The instance after a keydown: the component registers no keydown
\* handler of any kind.
CMS_afterKeyDown(c, key) == CMS_effects(c, CMS_event(c))

\* mousedown anywhere in the document.
CMS_MouseDown ==
    /\ cms.mounted
    /\ \E target \in {"outside", "trigger"} \cup
                     (IF cms.isOpen THEN {"panel"} ELSE {}) :
          /\ cms' = CMS_afterMouseDown(cms, target)
          /\ ev' = Event("mousedown", target, FALSE, cms.isOpen)
    /\ CMS_Others

\* keydown anywhere in the document.
CMS_KeyDown ==
    /\ cms.mounted
    /\ \E key \in Keys :
          /\ cms' = CMS_afterKeyDown(cms, key)
          /\ ev' = Event("keydown", key, FALSE, cms.isOpen)
    /\ CMS_Others

\* onClick of the trigger button.
CMS_Toggle ==
    /\ cms.mounted
    /\ cms' = CMS_effects(cms, CMS_toggleDropdown(CMS_event(cms)))
    /\ CMS_Frame

\* onChange of the search input of the open panel.
CMS_Change ==
    /\ cms.mounted /\ cms.isOpen
    /\ \E value \in Strings(MaxQueryLen) :
          /\ value # cms.searchTerm
          /\ cms' = CMS_effects(cms, CMS_handleInputChange(CMS_event(cms), value))
    /\ CMS_Frame

\* disabled={!multiple} of an option's checkbox, the only element of an
\* option row that has a handler.
CMS_checkboxDisabled(c) == ~c.multiple

\* onChange of the checkbox of a listed option; the checkbox is rendered
\* with disabled={!multiple}, and a disabled checkbox fires no change event.
\* last counts the consecutive commits of one identifier, up to two, and
\* remembers the membership before the first of them.
CMS_Commit ==
    /\ cms.mounted /\ cms.isOpen /\ ~CMS_checkboxDisabled(cms)
    /\ LET filteredOptions == CMS_filteredOptions(cms.options, cms.searchTerm)
       IN \E index \in 1..Len(filteredOptions) :
             LET id == filteredOptions[index].id
                 n == CMS_handleSelection(CMS_event(cms), id)
             IN cms' = CMS_effects(cms,
                    [n EXCEPT !.last =
                        IF cms.last.id = id /\ cms.last.run = 1
                        THEN [cms.last EXCEPT !.run = 2]
                        ELSE [id |-> id, run |-> 1,
                              origin |-> Members(cms.selectedItems)]])
    /\ CMS_Frame

\* Unmount: every effect cleanup runs.
CMS_Unmount ==
    /\ cms.mounted
    /\ cms' = [CMS_event(cms) EXCEPT !.mounted = FALSE, !.listeners = EmptyBag]
    /\ CMS_Frame

\* The instance after its first render and effect run.
CMS_Init ==
    \E n \in 0..MaxOptions, multiple \in BOOLEAN,
       selectedItems \in UNION {[1..k -> 1..MaxOptions] : k \in 0..MaxSelected} :
        cms = [mounted |-> TRUE,
               options |-> [i \in 1..n |-> [id |-> i, name |-> TextAt(i)]],
               multiple |-> multiple,
               selectedItems |-> selectedItems,
               isOpen |-> FALSE,
               searchTerm |-> <<>>,
               listeners |-> SetToBag({"document:mousedown"}),
               emitted |-> <<>>,
               last |-> [id |-> 0, run |-> 0, origin |-> {}]]

CMS_Next ==
    \/ CMS_MouseDown \/ CMS_KeyDown \/ CMS_Toggle \/ CMS_Change
    \/ CMS_Commit \/ CMS_Unmount

InitMultiSelect ==
    /\ CMS_Init
    /\ hook = Unmounted
    /\ dropdown = Unmounted
    /\ popover = Unmounted
    /\ sheet = Unmounted
    /\ filt = Unmounted
    /\ modal = Unmounted
    /\ place = Unmounted
    /\ ev = NoEvent
    /\ guard = Unmounted
    /\ caption = Unmounted
    /\ toast = Unmounted
    /\ sidebar = Unmounted
    /\ tip = Unmounted

SpecMultiSelect == InitMultiSelect /\ [][CMS_Next]_vars

\* ------------------------------------------------------------------------
\* Popover (src/unnamed/part_004)
\* ------------------------------------------------------------------------

\* const open = isControlled ? Boolean(openProp) : internalOpen;
Popover_open(p) == IF p.openProp # {} THEN Boolean(p.openProp) ELSE p.internalOpen

\* setOpen
Popover_setOpen(p, nextOpen) ==
    [p EXCEPT !.internalOpen = IF p.openProp = {} THEN nextOpen ELSE @,
              !.emitted = IF p.hasOnOpenChange
                          THEN Append(@, [fn |-> "onOpenChange", arg |-> nextOpen])
                          ELSE @]

\* handleClickOutside: containerRef.current is the root <div>, which holds
\* the trigger and the content.
Popover_handleClickOutside(p, target) ==
    IF p.mounted /\ target # "inside" THEN Popover_setOpen(p, FALSE) ELSE p

\* handleEscape
Popover_handleEscape(p, key) ==
    IF key = "Escape" THEN Popover_setOpen(p, FALSE) ELSE p

\* The listener effect (deps open, setOpen) after the render of n that
\* follows the render of p.
Popover_effects(p, n) ==
    LET l1 == IF Popover_open(p) /\ ~Popover_open(n)
              THEN removeEventListener(
                       removeEventListener(p.listeners, "document:mousedown"),
                       "document:keydown")
              ELSE p.listeners
        l2 == IF ~Popover_open(p) /\ Popover_open(n)
              THEN addEventListener(
                       addEventListener(l1, "document:mousedown"),
                       "document:keydown")
              ELSE l1
    IN [n EXCEPT !.listeners = l2]

Popover_event(p) == [p EXCEPT !.emitted = <<>>]

\* The other instances are untouched by an event of this one.
Popover_Others == UNCHANGED <<hook, dropdown, cms, sheet, filt, modal, place,
                 guard, caption, toast, sidebar, tip>>

\* An event other than a document mousedown or keydown.
Popover_Frame == Popover_Others /\ ev' = NoEvent

\* The instance after a mousedown on target, delivered to the listener if
\* one is registered.
Popover_afterMouseDown(p, target) ==
    Popover_effects(p,
        IF BagIn("document:mousedown", p.listeners)
        THEN Popover_handleClickOutside(Popover_event(p), target)
        ELSE Popover_event(p))

\* The instance after a keydown, delivered to the listener if one is
\* registered.
Popover_afterKeyDown(p, key) ==
    Popover_effects(p,
        IF BagIn("document:keydown", p.listeners)
        THEN Popover_handleEscape(Popover_event(p), key)
        ELSE Popover_event(p))

\* mousedown anywhere in the document.
Popover_MouseDown ==
    /\ popover.mounted
    /\ \E target \in {"inside", "outside"} :
          /\ popover' = Popover_afterMouseDown(popover, target)
          /\ ev' = Event("mousedown", target, FALSE, Popover_open(popover))
    /\ Popover_Others

\* keydown anywhere in the document.
Popover_KeyDown ==
    /\ popover.mounted
    /\ \E key \in Keys :
          /\ popover' = Popover_afterKeyDown(popover, key)
          /\ ev' = Event("keydown", key, FALSE, Popover_open(popover))
    /\ Popover_Others

\* handleClick of PopoverTrigger
Popover_TriggerClick ==
    /\ popover.mounted
    /\ LET p == Popover_event(popover)
       IN popover' = Popover_effects(popover,
              IF popover.disabled THEN p
              ELSE Popover_setOpen(p, ~Popover_open(popover)))
    /\ Popover_Frame

\* handleClick of PopoverClose
Popover_CloseClick ==
    /\ popover.mounted
    /\ popover' = Popover_effects(popover,
           Popover_setOpen(Popover_event(popover), FALSE))
    /\ Popover_Frame

\* A controlled caller renders the Popover with another open prop.
Popover_ParentRender ==
    /\ popover.mounted /\ popover.openProp # {}
    /\ popover' = Popover_effects(popover,
           [Popover_event(popover) EXCEPT !.openProp = {~Boolean(@)}])
    /\ Popover_Frame

\* Unmount: the effect cleanup runs.
Popover_Unmount ==
    /\ popover.mounted
    /\ popover' = [Popover_event(popover) EXCEPT
                      !.mounted = FALSE, !.listeners = EmptyBag]
    /\ Popover_Frame

\* The instance after its first render and effect run.
Popover_Init ==
    \E openProp \in OptBool, defaultOpen \in BOOLEAN,
       hasOnOpenChange \in BOOLEAN, disabled \in BOOLEAN :
        LET p == [mounted |-> TRUE, openProp |-> openProp,
                  hasOnOpenChange |-> hasOnOpenChange, disabled |-> disabled,
                  internalOpen |-> defaultOpen,
                  listeners |-> EmptyBag, emitted |-> <<>>]
        IN popover = [p EXCEPT !.listeners =
                         IF Popover_open(p)
                         THEN SetToBag({"document:mousedown", "document:keydown"})
                         ELSE EmptyBag]

Popover_Next ==
    \/ Popover_MouseDown \/ Popover_KeyDown \/ Popover_TriggerClick
    \/ Popover_CloseClick \/ Popover_ParentRender \/ Popover_Unmount

InitPopover ==
    /\ Popover_Init
    /\ hook = Unmounted
    /\ dropdown = Unmounted
    /\ cms = Unmounted
    /\ sheet = Unmounted
    /\ filt = Unmounted
    /\ modal = Unmounted
    /\ place = Unmounted
    /\ ev = NoEvent
    /\ guard = Unmounted
    /\ caption = Unmounted
    /\ toast = Unmounted
    /\ sidebar = Unmounted
    /\ tip = Unmounted

SpecPopover == InitPopover /\ [][Popover_Next]_vars

\* ------------------------------------------------------------------------
\* Sheet (src/src/components/Sheet.tsx)
\* ------------------------------------------------------------------------

\* const open = isControlled ? Boolean(openProp) : internalOpen;
Sheet_open(t) == IF t.openProp # {} THEN Boolean(t.openProp) ELSE t.internalOpen

\* setOpen
Sheet_setOpen(t, nextOpen) ==
    [t EXCEPT !.internalOpen = IF t.openProp = {} THEN nextOpen ELSE @,
              !.emitted = IF t.hasOnOpenChange
                          THEN Append(@, [fn |-> "onOpenChange", arg |-> nextOpen])
                          ELSE @]

\* handleEscape of SheetContent
Sheet_handleEscape(t, key) ==
    IF key = "Escape" THEN Sheet_setOpen(t, FALSE) ELSE t

\* The listener effect of SheetContent (deps open, setOpen) after the
\* render of n that follows the render of t.
Sheet_effects(t, n) ==
    LET l1 == IF Sheet_open(t) /\ ~Sheet_open(n)
              THEN removeEventListener(t.listeners, "document:keydown")
              ELSE t.listeners
        l2 == IF ~Sheet_open(t) /\ Sheet_open(n)
              THEN addEventListener(l1, "document:keydown")
              ELSE l1
    IN [n EXCEPT !.listeners = l2]

Sheet_event(t) == [t EXCEPT !.emitted = <<>>]

\* The other instances are untouched by an event of this one.
Sheet_Others == UNCHANGED <<hook, dropdown, cms, popover, filt, modal, place,
                 guard, caption, toast, sidebar, tip>>

\* An event other than a document mousedown or keydown.
Sheet_Frame == Sheet_Others /\ ev' = NoEvent

\* The instance after a mousedown: the Sheet registers no mousedown
\* listener on the document.
Sheet_afterMouseDown(t, target) == Sheet_effects(t, Sheet_event(t))

\* The instance after a keydown, delivered to the listener if one is
\* registered.
Sheet_afterKeyDown(t, key) ==
    Sheet_effects(t,
        IF BagIn("document:keydown", t.listeners)
        THEN Sheet_handleEscape(Sheet_event(t), key)
        ELSE Sheet_event(t))

\* mousedown anywhere in the document.
Sheet_MouseDown ==
    /\ sheet.mounted
    /\ \E target \in {"inside", "outside"} :
          /\ sheet' = Sheet_afterMouseDown(sheet, target)
          /\ ev' = Event("mousedown", target, FALSE, Sheet_open(sheet))
    /\ Sheet_Others

\* keydown anywhere in the document.
Sheet_KeyDown ==
    /\ sheet.mounted
    /\ \E key \in Keys :
          /\ sheet' = Sheet_afterKeyDown(sheet, key)
          /\ ev' = Event("keydown", key, FALSE, Sheet_open(sheet))
    /\ Sheet_Others

\* handleClick of SheetTrigger
Sheet_TriggerClick ==
    /\ sheet.mounted
    /\ sheet' = Sheet_effects(sheet,
           Sheet_setOpen(Sheet_event(sheet), ~Sheet_open(sheet)))
    /\ Sheet_Frame

\* onClick of the overlay, rendered while open when showOverlay is set.
Sheet_OverlayClick ==
    /\ sheet.mounted /\ Sheet_open(sheet) /\ sheet.showOverlay
    /\ sheet' = Sheet_effects(sheet, Sheet_setOpen(Sheet_event(sheet), FALSE))
    /\ Sheet_Frame

\* handleClick of SheetClose
Sheet_CloseClick ==
    /\ sheet.mounted
    /\ sheet' = Sheet_effects(sheet, Sheet_setOpen(Sheet_event(sheet), FALSE))
    /\ Sheet_Frame

\* A controlled caller renders the Sheet with another open prop.
Sheet_ParentRender ==
    /\ sheet.mounted /\ sheet.openProp # {}
    /\ sheet' = Sheet_effects(sheet,
           [Sheet_event(sheet) EXCEPT !.openProp = {~Boolean(@)}])
    /\ Sheet_Frame

\* Unmount: the effect cleanup runs.
Sheet_Unmount ==
    /\ sheet.mounted
    /\ sheet' = [Sheet_event(sheet) EXCEPT
                    !.mounted = FALSE, !.listeners = EmptyBag]
    /\ Sheet_Frame

\* The instance after its first render and effect run.
Sheet_Init ==
    \E openProp \in OptBool, defaultOpen \in BOOLEAN,
       hasOnOpenChange \in BOOLEAN, showOverlay \in BOOLEAN :
        LET t == [mounted |-> TRUE, openProp |-> openProp,
                  hasOnOpenChange |-> hasOnOpenChange,
                  showOverlay |-> showOverlay,
                  internalOpen |-> defaultOpen,
                  listeners |-> EmptyBag, emitted |-> <<>>]
        IN sheet = [t EXCEPT !.listeners =
                       IF Sheet_open(t) THEN SetToBag({"document:keydown"})
                       ELSE EmptyBag]

Sheet_Next ==
    \/ Sheet_MouseDown \/ Sheet_KeyDown \/ Sheet_TriggerClick
    \/ Sheet_OverlayClick \/ Sheet_CloseClick \/ Sheet_ParentRender
    \/ Sheet_Unmount

InitSheet ==
    /\ Sheet_Init
    /\ hook = Unmounted
    /\ dropdown = Unmounted
    /\ cms = Unmounted
    /\ popover = Unmounted
    /\ filt = Unmounted
    /\ modal = Unmounted
    /\ place = Unmounted
    /\ ev = NoEvent
    /\ guard = Unmounted
    /\ caption = Unmounted
    /\ toast = Unmounted
    /\ sidebar = Unmounted
    /\ tip = Unmounted

SpecSheet == InitSheet /\ [][Sheet_Next]_vars

\* ------------------------------------------------------------------------
\* One floating-element instance of any of the four kinds
\* ------------------------------------------------------------------------

InitFloating ==
    \/ InitDropdown
    \/ InitMultiSelect
    \/ InitPopover
    \/ InitSheet

NextFloating ==
    \/ Dropdown_Next
    \/ CMS_Next
    \/ Popover_Next
    \/ Sheet_Next

SpecFloating == InitFloating /\ [][NextFloating]_vars

\* ------------------------------------------------------------------------
\* The filter of Dropdown and CustomMultiSelect as a function of its inputs
\* ------------------------------------------------------------------------

\* The texts the options of a filtered list are drawn from.
FilterTexts ==
    { <<>>, <<"a">>, <<"A">>, <<"b">>, <<"A", "b">>, <<"b", "a">>,
      <<"a", "A">>, <<"b", "b">> }

\* Both components render with the option list and the text typed so far.
Filter_Render ==
    /\ filt # Unmounted
    /\ ~filt.rendered
    /\ filt' = [filt EXCEPT
           !.rendered = TRUE,
           !.dropdown = Dropdown_filteredOptions(
                            [i \in 1..Len(filt.texts) |-> Option(i, filt.texts[i])],
                            filt.query),
           !.cms = CMS_filteredOptions(
                       [i \in 1..Len(filt.texts) |-> [id |-> i, name |-> filt.texts[i]]],
                       filt.query)]
    /\ UNCHANGED <<hook, dropdown, cms, popover, sheet, modal, place, ev,
                 guard, caption, toast, sidebar, tip>>

\* The user edits the text; the next render filters again.
Filter_Change ==
    /\ filt # Unmounted
    /\ filt.rendered
    /\ \E value \in Strings(MaxQueryLen) :
          /\ value # filt.query
          /\ filt' = [filt EXCEPT !.query = value, !.rendered = FALSE,
                                  !.dropdown = <<>>, !.cms = <<>>]
    /\ UNCHANGED <<hook, dropdown, cms, popover, sheet, modal, place, ev,
                 guard, caption, toast, sidebar, tip>>

InitFilter ==
    /\ \E texts \in UNION {[1..k -> FilterTexts] : k \in 0..MaxOptions},
          query \in Strings(MaxQueryLen) :
          filt = [texts |-> texts, query |-> query, rendered |-> FALSE,
                  dropdown |-> <<>>, cms |-> <<>>]
    /\ hook = Unmounted
    /\ dropdown = Unmounted
    /\ cms = Unmounted
    /\ popover = Unmounted
    /\ sheet = Unmounted
    /\ modal = Unmounted
    /\ place = Unmounted
    /\ ev = NoEvent
    /\ guard = Unmounted
    /\ caption = Unmounted
    /\ toast = Unmounted
    /\ sidebar = Unmounted
    /\ tip = Unmounted

NextFilter == Filter_Render \/ Filter_Change

SpecFilter == InitFilter /\ [][NextFilter]_vars

\* ------------------------------------------------------------------------
\* Claims about the floating elements
\* ------------------------------------------------------------------------

\* C4: a mounted Dropdown, CustomMultiSelect, Popover or Sheet that is
\* closed has no global listener registered.
C4_ClosedInstanceHasNoListeners ==
    /\ (dropdown.mounted /\ ~dropdown.isDropdownOpen)
           => ListenerCount(dropdown.listeners) = 0
    /\ (cms.mounted /\ ~cms.isOpen) => ListenerCount(cms.listeners) = 0
    /\ (popover.mounted /\ ~Popover_open(popover))
           => ListenerCount(popover.listeners) = 0
    /\ (sheet.mounted /\ ~Sheet_open(sheet))
           => ListenerCount(sheet.listeners) = 0

\* C5: a pointer-down outside the instance, or an Escape keydown, that
\* arrives while the instance is closed makes no notification and leaves
\* every field of the instance as it was.
C5_ClosedIgnoresOutsideClickAndEscape ==
    [][ /\ (/\ dropdown.mounted /\ ~dropdown.isDropdownOpen
            /\ \/ dropdown' = Dropdown_afterMouseDown(dropdown, "outside")
               \/ dropdown' = Dropdown_afterKeyDown(dropdown, "Escape", FALSE)
               \/ /\ dropdown.inputFocused
                  /\ dropdown' = Dropdown_afterKeyDown(dropdown, "Escape", TRUE))
           => dropdown' = Dropdown_event(dropdown)
        /\ (/\ cms.mounted /\ ~cms.isOpen
            /\ \/ cms' = CMS_afterMouseDown(cms, "outside")
               \/ cms' = CMS_afterKeyDown(cms, "Escape"))
           => cms' = CMS_event(cms)
        /\ (/\ popover.mounted /\ ~Popover_open(popover)
            /\ \/ popover' = Popover_afterMouseDown(popover, "outside")
               \/ popover' = Popover_afterKeyDown(popover, "Escape"))
           => popover' = Popover_event(popover)
        /\ (/\ sheet.mounted /\ ~Sheet_open(sheet)
            /\ \/ sheet' = Sheet_afterMouseDown(sheet, "outside")
               \/ sheet' = Sheet_afterKeyDown(sheet, "Escape"))
           => sheet' = Sheet_event(sheet)
      ]_vars

\* C6: the highlighted index of a mounted Dropdown is null or an index of
\* the current filtered list.
C6_HighlightIsNullOrInRange ==
    dropdown.mounted =>
        \/ dropdown.highlightedIndex = Null
        \/ /\ dropdown.highlightedIndex.kind = "num"
           /\ dropdown.highlightedIndex.n >= 0
           /\ dropdown.highlightedIndex.n <
                  Len(Dropdown_filteredOptions(dropdown.options,
                                               dropdown.searchQuery))

\* C7: every step that takes a Dropdown or CustomMultiSelect panel from
\* open to closed leaves the search text empty and the highlight null.
C7_CloseResetsQueryAndHighlight ==
    [][ /\ (dropdown.mounted /\ dropdown.isDropdownOpen
                /\ ~dropdown'.isDropdownOpen)
           => /\ dropdown'.searchQuery = <<>>
              /\ dropdown'.highlightedIndex = Null
        /\ (cms.mounted /\ cms.isOpen /\ ~cms'.isOpen)
           => cms'.searchTerm = <<>>
      ]_vars

\* Two characters are the same letter, whatever their case.
SameLetter(x, y) == x = y \/ {x, y} = {"a", "A"}

\* The query occurs in the text, ignoring case.
Matches(text, query) ==
    \E offset \in 0..(Len(text) - Len(query)) :
        \A k \in 1..Len(query) : SameLetter(text[offset + k], query[k])

\* The position in texts of the j-th text that matches the query.
NthMatch(texts, query, j) ==
    CHOOSE i \in 1..Len(texts) :
        /\ Matches(texts[i], query)
        /\ Cardinality({k \in 1..(i - 1) : Matches(texts[k], query)}) = j - 1

\* The identifiers of the options whose text matches, in list order.
MatchingIds(texts, query) ==
    [j \in 1..Cardinality({i \in 1..Len(texts) : Matches(texts[i], query)})
        |-> NthMatch(texts, query, j)]

\* C8: the filtered list of either component is exactly the options whose
\* text contains the query ignoring case, each once, in their original
\* order.
C8_FilterIsOrderedCaseInsensitiveMatch ==
    (filt # Unmounted /\ filt.rendered) =>
        LET ids == MatchingIds(filt.texts, filt.query)
        IN /\ filt.dropdown = [j \in 1..Len(ids) |-> Option(ids[j], filt.texts[ids[j]])]
           /\ filt.cms = [j \in 1..Len(ids) |->
                             [id |-> ids[j], name |-> filt.texts[ids[j]]]]

C8_Witness ==
    /\ filt # Unmounted /\ filt.rendered
    /\ filt.texts = << <<"b">>, <<"b", "a">> >>
    /\ filt.query = <<"A">>
    /\ filt.dropdown = << Option(2, <<"b", "a">>) >>
    /\ filt.cms = << [id |-> 2, name |-> <<"b", "a">>] >>

\* C9: in multiple mode, after the same identifier has been committed
\* twice in a row the selection has the members it had before the first
\* of the two commits.
C9_CommitTwiceRestoresMembership ==
    (cms.mounted /\ cms.multiple /\ cms.last.run = 2)
        => Members(cms.selectedItems) = cms.last.origin

C9_Witness ==
    /\ cms.mounted /\ cms.multiple
    /\ cms.last = [id |-> 1, run |-> 2, origin |-> {1, 2}]
    /\ cms.selectedItems = <<2, 1>>

\* C10: in multiple mode a commit flips the membership of the committed
\* identifier only: the panel stays open, the search text and the
\* membership of every other identifier are unchanged.
C10_MultiCommitTogglesOneMember ==
    [][ (cms.mounted /\ cms.multiple /\ cms'.last # cms.last)
           => /\ cms'.isOpen
              /\ cms'.searchTerm = cms.searchTerm
              /\ (cms'.last.id \in Members(cms'.selectedItems))
                     <=> (cms'.last.id \notin Members(cms.selectedItems))
              /\ Members(cms'.selectedItems) \ {cms'.last.id}
                     = Members(cms.selectedItems) \ {cms'.last.id}
              /\ cms'.options = cms.options
              /\ cms'.listeners = cms.listeners
      ]_vars

C10_Witness ==
    /\ cms.mounted /\ cms.multiple /\ cms.isOpen
    /\ cms.last.id = 1
    /\ cms.searchTerm = <<"a">>
    /\ cms.selectedItems = <<2, 1>>
    /\ cms.emitted = <<[fn |-> "onSelect", arg |-> <<2, 1>>]>>

\* ------------------------------------------------------------------------
\* Claims about committing, clearing and dismissing
\* ------------------------------------------------------------------------

\* The elements of an array, as a set.
Elements(array) == {array[i] : i \in 1..Len(array)}

\* C11: a single-select commit - an onSelect made by an open Dropdown (option
\* click or Enter) or by a CustomMultiSelect with multiple=false - reports
\* exactly one item of the listed options, that item becomes the whole
\* selection, and the panel is closed afterwards.
C11_SingleCommitReplacesAndCloses ==
    [][ /\ (/\ dropdown.mounted /\ dropdown.isDropdownOpen
            /\ dropdown'.emitted # <<>>)
           => /\ Len(dropdown'.emitted) = 1
              /\ dropdown'.emitted[1].fn = "onSelect"
              /\ dropdown'.emitted[1].arg \in
                     Elements(Dropdown_filteredOptions(dropdown.options,
                                                       dropdown.searchQuery))
              /\ dropdown'.selectedOption = dropdown'.emitted[1].arg
              /\ ~dropdown'.isDropdownOpen
        /\ (/\ cms.mounted /\ ~cms.multiple /\ cms.isOpen
            /\ cms'.emitted # <<>>)
           => /\ Len(cms'.emitted) = 1
              /\ cms'.emitted[1].fn = "onSelect"
              /\ \E id \in {o.id : o \in Elements(cms.options)} :
                    /\ cms'.emitted[1].arg = <<id>>
                    /\ cms'.selectedItems = <<id>>
              /\ ~cms'.isOpen
      ]_vars

\* The number of calls of fn among the notifications of an event.
Calls(emitted, fn) == Cardinality({i \in 1..Len(emitted) : emitted[i].fn = fn})

\* C12: the clear action of a Dropdown whose caller stores the onSelect
\* value as selectedOption leaves the Dropdown as with selectedOption = null
\* (empty input text, no clear button), and calls onSelect exactly once
\* and onClear, when supplied, exactly once.
C12_ClearEmptiesSelectionAndNotifiesOnce ==
    [][ (/\ dropdown.mounted /\ Dropdown_clearButtonShown(dropdown)
         /\ dropdown'.emitted # <<>>)
           => /\ Dropdown_inputValue(dropdown') = <<>>
              /\ ~Dropdown_clearButtonShown(dropdown')
              /\ Calls(dropdown'.emitted, "onSelect") = 1
              /\ Calls(dropdown'.emitted, "onClear")
                     = (IF dropdown.hasOnClear THEN 1 ELSE 0)
              /\ Len(dropdown'.emitted) = (IF dropdown.hasOnClear THEN 2 ELSE 1)
      ]_vars

\* ------------------------------------------------------------------------
\* Modal (src/src/components/Modal.tsx)
\* ------------------------------------------------------------------------

MaxFocusable == 3

\* Where the focus is: on the modal container (tabIndex -1), on the i-th
\* element of getFocusableElements() for i >= 1, or outside the modal.
Container == 0

Outside == 0 - 1

\* No key has been pressed in the last step.
NoKey == [key |-> "none", shiftKey |-> FALSE, from |-> Outside,
          nested |-> FALSE, openDropdown |-> FALSE, prevented |-> FALSE]

\* The elements of the document that the selectors of handleKeyDown can
\* match: the overlay <div> the Modal itself renders, and the panel and
\* the options of a floating panel opened from within the Modal.
Modal_document(m) ==
    (IF m.mounted
     THEN {[tag |-> "modal-overlay", role |-> "dialog", classes |-> {"fixed", "inset-0", "z-50"}]}
     ELSE {})
    \cup
    (IF m.nestedOpen
     THEN {[tag |-> "panel", role |-> "", classes |-> {"rounded-lg", "shadow-lg", "z-50"}],
           [tag |-> "li", role |-> "option", classes |-> {"cursor-pointer"}]}
     ELSE {})

\* document.querySelector('[role="option"]') || document.querySelector(".z-50")
Modal_openDropdown(m) ==
    \/ \E e \in Modal_document(m) : e.role = "option"
    \/ \E e \in Modal_document(m) : "z-50" \in e.classes

\* handleKeyDown, the keydown listener of the modal container.  last
\* records the event and whether preventDefault was called.
Modal_handleKeyDown(m, key, shiftKey) ==
    LET e == [key |-> key, shiftKey |-> shiftKey, from |-> m.focus,
              nested |-> m.nestedOpen,
              openDropdown |-> Modal_openDropdown(m), prevented |-> FALSE]
        firstElement == 1
        lastElement == m.count
    IN IF key = "Tab"
       THEN IF Modal_openDropdown(m) THEN [m EXCEPT !.last = e]
            ELSE IF ~shiftKey /\ m.count >= 1 /\ m.focus = lastElement
            THEN [m EXCEPT !.last = [e EXCEPT !.prevented = TRUE],
                           !.focus = firstElement]
            ELSE IF shiftKey /\ m.count >= 1 /\ m.focus = firstElement
            THEN [m EXCEPT !.last = [e EXCEPT !.prevented = TRUE],
                           !.focus = lastElement]
            ELSE [m EXCEPT !.last = e]
       ELSE IF key = "Escape"
       THEN [m EXCEPT !.last = [e EXCEPT !.prevented = TRUE]]
       ELSE [m EXCEPT !.last = e]

\* The places the browser's sequential focus navigation can move the focus
\* to when Tab is not prevented: the next or previous tabbable element in
\* document order; the container itself is not tabbable.
Modal_defaultTab(m, shiftKey) ==
    IF m.focus = Outside
    THEN {Outside} \cup (IF m.count >= 1
                         THEN {IF shiftKey THEN m.count ELSE 1} ELSE {})
    ELSE IF shiftKey
    THEN {IF m.focus >= 2 THEN m.focus - 1 ELSE Outside}
    ELSE {IF m.focus < m.count THEN m.focus + 1 ELSE Outside}

Modal_Frame == UNCHANGED <<hook, dropdown, cms, popover, sheet, filt, place, ev,
                 guard, caption, toast, sidebar, tip>>

\* keydown while the modal is mounted.  The listener is on the container,
\* so it runs for keys pressed with the focus inside the modal.  A Tab
\* closes an open Dropdown (its own keydown handlers).
Modal_KeyDown ==
    /\ modal.mounted
    /\ \E key \in {"Tab", "Escape", "x"}, shiftKey \in BOOLEAN :
          LET m == IF modal.focus # Outside
                   THEN Modal_handleKeyDown(modal, key, shiftKey)
                   ELSE [modal EXCEPT !.last =
                            [key |-> key, shiftKey |-> shiftKey,
                             from |-> Outside, nested |-> modal.nestedOpen,
                             openDropdown |-> FALSE,
                             prevented |-> FALSE]]
          IN IF key = "Tab" /\ ~m.last.prevented
             THEN \E to \in Modal_defaultTab(modal, shiftKey) :
                     modal' = [m EXCEPT !.focus = to, !.nestedOpen = FALSE]
             ELSE modal' = [m EXCEPT !.nestedOpen =
                                         IF key = "Escape" THEN FALSE ELSE @]
    /\ Modal_Frame

\* The user clicks a focusable element of the modal.
Modal_Click ==
    /\ modal.mounted
    /\ \E i \in 1..modal.count :
          modal' = [modal EXCEPT !.focus = i, !.last = NoKey]
    /\ Modal_Frame

\* The user opens or closes a Dropdown that is a child of the modal; its
\* panel is rendered by a portal into document.body, and opening focuses
\* its <input>, one of the focusable elements.
Modal_NestedToggle ==
    /\ modal.mounted /\ modal.count >= 1
    /\ \E i \in 1..modal.count :
          modal' = [modal EXCEPT !.nestedOpen = ~@, !.last = NoKey,
                                 !.focus = IF ~modal.nestedOpen THEN i ELSE @]
    /\ Modal_Frame

\* The 100 ms timer of the mount effect fires: focusableElements[0].focus().
\* focus() on an element of an unmounted modal does nothing.
Modal_FocusTimeout ==
    /\ modal # Unmounted
    /\ modal.focusTimer
    /\ modal' = [modal EXCEPT !.focusTimer = FALSE, !.last = NoKey,
                              !.focus = IF modal.mounted /\ modal.count >= 1
                                        THEN 1 ELSE @]
    /\ Modal_Frame

\* Unmount: the cleanup removes the keydown listener; the timer stays.
Modal_Unmount ==
    /\ modal.mounted
    /\ modal' = [modal EXCEPT !.mounted = FALSE, !.focus = Outside,
                              !.nestedOpen = FALSE, !.last = NoKey]
    /\ Modal_Frame

\* The modal after its first render and its mount effect: modal.focus(),
\* the listener added and the timer started.
Modal_Init ==
    \E count \in 0..MaxFocusable :
        modal = [mounted |-> TRUE, count |-> count, focus |-> Container,
                 nestedOpen |-> FALSE, focusTimer |-> TRUE,
                 last |-> NoKey, emitted |-> <<>>]

Modal_Next ==
    \/ Modal_KeyDown \/ Modal_Click \/ Modal_NestedToggle
    \/ Modal_FocusTimeout \/ Modal_Unmount

InitModal ==
    /\ Modal_Init
    /\ hook = Unmounted
    /\ dropdown = Unmounted
    /\ cms = Unmounted
    /\ popover = Unmounted
    /\ sheet = Unmounted
    /\ filt = Unmounted
    /\ place = Unmounted
    /\ ev = NoEvent
    /\ guard = Unmounted
    /\ caption = Unmounted
    /\ toast = Unmounted
    /\ sidebar = Unmounted
    /\ tip = Unmounted

SpecModal == InitModal /\ [][Modal_Next]_vars

\* C13: after a Tab pressed on a focusable descendant of a mounted Modal
\* with no nested panel open, the focus is on the first element if Tab was
\* pressed on the last, on the last if Shift+Tab was pressed on the first,
\* the key is passed through otherwise, and the focus is still in the modal.
C13_TabWrapsInsideModal ==
    (/\ modal.mounted /\ modal.last.key = "Tab"
     /\ modal.last.from >= 1 /\ ~modal.last.nested)
        => /\ (~modal.last.shiftKey /\ modal.last.from = modal.count)
                  => modal.focus = 1
           /\ (modal.last.shiftKey /\ modal.last.from = 1)
                  => modal.focus = modal.count
           /\ (~(~modal.last.shiftKey /\ modal.last.from = modal.count)
                 /\ ~(modal.last.shiftKey /\ modal.last.from = 1))
                  => ~modal.last.prevented
           /\ modal.focus # Outside

\* C14: the check of the Modal's Tab handler is true exactly when a nested
\* floating panel is open, and a Tab that finds it true is not intercepted.
C14_NestedPanelDetectionIsStructural ==
    modal.mounted =>
        /\ Modal_openDropdown(modal) <=> modal.nestedOpen
        /\ (modal.last.key = "Tab" /\ modal.last.from # Outside)
               => (modal.last.openDropdown <=> modal.last.nested)
        /\ (modal.last.key = "Tab" /\ modal.last.openDropdown)
               => ~modal.last.prevented

MaxCoord == 2

MaxScroll == 1

\* triggerRef.current.getBoundingClientRect(): the rectangle of the trigger
\* relative to the viewport, for a trigger at (pageLeft, pageTop) of a page
\* scrolled by (scrollX, scrollY).
Place_getBoundingClientRect(p) ==
    [top |-> p.pageTop - p.scrollY,
     left |-> p.pageLeft - p.scrollX,
     bottom |-> p.pageTop - p.scrollY + p.height,
     width |-> p.width,
     height |-> p.height]

\* updatePosition: the same code in both components.
Place_updatePosition(p) ==
    IF p.isOpen
    THEN LET rect == Place_getBoundingClientRect(p)
         IN [p EXCEPT !.dropdownPosition =
                [top |-> rect.bottom + p.scrollY,
                 left |-> rect.left + p.scrollX,
                 width |-> rect.width]]
    ELSE p

\* The panel is rendered with position: "fixed" and top/left/width of
\* dropdownPosition, that is, at these viewport coordinates.
Place_panel(p) == p.dropdownPosition

Place_Frame == UNCHANGED <<hook, dropdown, cms, popover, sheet, filt, modal, ev,
                 guard, caption, toast, sidebar, tip>>

\* The panel opens or closes; the position effect (deps: open) runs.
Place_Toggle ==
    /\ place # Unmounted
    /\ place' = Place_updatePosition([place EXCEPT !.isOpen = ~@])
    /\ Place_Frame

\* The window is scrolled; while open the scroll listener runs.
Place_Scroll ==
    /\ place # Unmounted
    /\ \E x \in 0..MaxScroll, y \in 0..MaxScroll :
          /\ <<x, y>> # <<place.scrollX, place.scrollY>>
          /\ place' = Place_updatePosition(
                          [place EXCEPT !.scrollX = x, !.scrollY = y])
    /\ Place_Frame

\* The window is resized and the trigger with it; while open the resize
\* listener runs.
Place_Resize ==
    /\ place # Unmounted
    /\ \E w \in 1..MaxCoord :
          /\ w # place.width
          /\ place' = Place_updatePosition([place EXCEPT !.width = w])
    /\ Place_Frame

\* A closed instance: useState({ top: 0, left: 0, width: 0 }).
InitPlace ==
    /\ \E pageTop \in 0..MaxCoord, pageLeft \in 0..MaxCoord,
          width \in 1..MaxCoord, height \in 1..MaxCoord,
          scrollX \in 0..MaxScroll, scrollY \in 0..MaxScroll :
          place = [pageTop |-> pageTop, pageLeft |-> pageLeft,
                   width |-> width, height |-> height,
                   scrollX |-> scrollX, scrollY |-> scrollY,
                   isOpen |-> FALSE,
                   dropdownPosition |-> [top |-> 0, left |-> 0, width |-> 0]]
    /\ hook = Unmounted
    /\ dropdown = Unmounted
    /\ cms = Unmounted
    /\ popover = Unmounted
    /\ sheet = Unmounted
    /\ filt = Unmounted
    /\ modal = Unmounted
    /\ ev = NoEvent
    /\ guard = Unmounted
    /\ caption = Unmounted
    /\ toast = Unmounted
    /\ sidebar = Unmounted
    /\ tip = Unmounted

NextPlace == Place_Toggle \/ Place_Scroll \/ Place_Resize

SpecPlace == InitPlace /\ [][NextPlace]_vars

\* The distance between the bottom edge of the trigger and the panel.
Gap(p) ==
    Place_panel(p).top
        - (Place_getBoundingClientRect(p).top + Place_getBoundingClientRect(p).height)

\* C15: while the panel is open its left and width are those of the
\* trigger's rectangle and its top is the rectangle's top + height plus a
\* gap that is the same after every update, whatever the scroll offset.
C15_PanelIsBelowTrigger ==
    [][ (place # Unmounted /\ place'.isOpen)
           => /\ Place_panel(place').left = Place_getBoundingClientRect(place').left
              /\ Place_panel(place').width = Place_getBoundingClientRect(place').width
              /\ Gap(place') >= 0
              /\ place.isOpen => Gap(place') = Gap(place)
      ]_vars

\* ------------------------------------------------------------------------
\* Claims about keys and pointer-downs delivered to an open panel
\* ------------------------------------------------------------------------

\* index is an index of the array, counted from 0.
ValidIndex(index, array) ==
    index.kind = "num" /\ index.n >= 0 /\ index.n < Len(array)

\* C16: ArrowDown in an open Dropdown moves a highlight i to (i+1) mod n and
\* ArrowUp to (i-1+n) mod n, n being the length of the filtered list, and
\* after either key the highlight is null or an index of that list.
C16_ArrowKeysMoveCircularly ==
    [][ (/\ dropdown.mounted /\ dropdown.isDropdownOpen
         /\ ev'.type = "keydown" /\ ev'.detail \in {"ArrowDown", "ArrowUp"})
           => LET list == Dropdown_filteredOptions(dropdown.options,
                                                   dropdown.searchQuery)
                  n == Len(list)
                  i == dropdown.highlightedIndex
                  j == dropdown'.highlightedIndex
              IN /\ (ValidIndex(i, list) /\ ev'.detail = "ArrowDown")
                        => j = Num((i.n + 1) % n)
                 /\ (ValidIndex(i, list) /\ ev'.detail = "ArrowUp")
                        => j = Num((i.n - 1 + n) % n)
                 /\ j = Null \/ ValidIndex(j, list)
      ]_vars

\* C17: Enter in an open Dropdown with a non-null highlight calls onSelect
\* once, with the item of the rendered list at the highlighted index, and
\* closes the panel; with a null highlight it calls nothing and the panel
\* stays open.
C17_EnterCommitsHighlightedItem ==
    [][ (/\ dropdown.mounted /\ dropdown.isDropdownOpen
         /\ ev'.type = "keydown" /\ ev'.detail = "Enter")
           => LET list == Dropdown_filteredOptions(dropdown.options,
                                                   dropdown.searchQuery)
                  i == dropdown.highlightedIndex
              IN /\ i # Null
                        => /\ ValidIndex(i, list)
                           /\ dropdown'.emitted =
                                  <<[fn |-> "onSelect", arg |-> list[i.n + 1]]>>
                           /\ ~dropdown'.isDropdownOpen
                 /\ i = Null
                        => /\ dropdown'.emitted = <<>>
                           /\ dropdown'.isDropdownOpen
      ]_vars

\* C18: Escape, and a pointer-down outside, delivered to an open Dropdown
\* or CustomMultiSelect leave the panel closed and the search text empty,
\* and call no onSelect.
C18_EscapeAndOutsideCloseWithoutCommit ==
    [][ LET dismiss == \/ ev'.type = "keydown" /\ ev'.detail = "Escape"
                       \/ ev'.type = "mousedown" /\ ev'.detail = "outside"
        IN /\ (dropdown.mounted /\ dropdown.isDropdownOpen /\ dismiss)
                  => /\ ~dropdown'.isDropdownOpen
                     /\ dropdown'.searchQuery = <<>>
                     /\ dropdown'.emitted = <<>>
           /\ (cms.mounted /\ cms.isOpen /\ dismiss)
                  => /\ ~cms'.isOpen
                     /\ cms'.searchTerm = <<>>
                     /\ cms'.emitted = <<>>
      ]_vars

Contexts == {"Sheet", "SheetContent", "Popover", "ToastProvider"}

Consumers ==
    {"SheetTrigger", "SheetContent", "SheetClose", "SheetTitle",
     "SheetDescription", "PopoverTrigger", "PopoverContent", "PopoverClose",
     "useToast"}

NoMessage == [component |-> "", text |-> ""]

\* The result of a guard hook: either the context value or a thrown Error.
Guard_result(threw, message) == [threw |-> threw, message |-> message]

useSheetContext(component, provided) ==
    IF "Sheet" \notin provided
    THEN Guard_result(TRUE, [component |-> component,
                             text |-> "must be used within a <Sheet />"])
    ELSE Guard_result(FALSE, NoMessage)

useSheetContentContext(component, provided) ==
    IF "SheetContent" \notin provided
    THEN Guard_result(TRUE, [component |-> component,
                             text |-> "must be used within <SheetContent />"])
    ELSE Guard_result(FALSE, NoMessage)

usePopoverContext(component, provided) ==
    IF "Popover" \notin provided
    THEN Guard_result(TRUE, [component |-> component,
                             text |-> "must be used within a <Popover />"])
    ELSE Guard_result(FALSE, NoMessage)

useToast(provided) ==
    IF "ToastProvider" \notin provided
    THEN Guard_result(TRUE, [component |-> "useToast",
                             text |-> "must be used within a ToastProvider"])
    ELSE Guard_result(FALSE, NoMessage)

\* The context each consumer needs.
Guard_requires(component) ==
    CASE component \in {"SheetTrigger", "SheetContent", "SheetClose"} -> "Sheet"
      [] component \in {"SheetTitle", "SheetDescription"} -> "SheetContent"
      [] component \in {"PopoverTrigger", "PopoverContent", "PopoverClose"}
             -> "Popover"
      [] OTHER -> "ToastProvider"

\* The statements of each consumer's body, in source order.
Guard_body(component) ==
    CASE component = "SheetContent"
             -> <<"guard", "useState", "useState", "useState",
                  "useEffect", "useEffect", "return">>
      [] component \in {"SheetTitle", "SheetDescription"}
             -> <<"guard", "useId", "useEffect", "return">>
      [] OTHER -> <<"guard", "return">>

Guard_useContext_returnsNull(component, provided) ==
    Guard_result(FALSE, NoMessage)

\* The guard statement of a consumer.
Guard_useContext(component, provided) ==
    CASE Guard_requires(component) = "Sheet"
             -> useSheetContext(component, provided)
      [] Guard_requires(component) = "SheetContent"
             -> useSheetContentContext(component, provided)
      [] Guard_requires(component) = "Popover"
             -> usePopoverContext(component, provided)
      [] OTHER -> useToast(provided)

\* Runs the body from statement i on; a throw abandons the rest.
RECURSIVE Guard_run(_, _)
Guard_run(g, i) ==
    LET body == Guard_body(g.component) IN
    IF i > Len(body) THEN g
    ELSE CASE body[i] = "guard" ->
                  LET r == Guard_useContext(g.component, g.provided) IN
                  IF r.threw
                  THEN [g EXCEPT !.outcome = "threw", !.message = r.message]
                  ELSE Guard_run(g, i + 1)
           [] body[i] \in {"useState", "useId"} ->
                  Guard_run([g EXCEPT !.hooks = @ + 1], i + 1)
           [] body[i] = "useEffect" ->
                  Guard_run([g EXCEPT !.effects = @ + 1], i + 1)
           [] OTHER -> [g EXCEPT !.outcome = "returned", !.value = TRUE]

Guard_Init(component, provided, isOpen) ==
    [mounted |-> TRUE, component |-> component, provided |-> provided,
     open |-> isOpen, toasts |-> 0, hooks |-> 0, effects |-> 0,
     outcome |-> "pending", message |-> NoMessage, value |-> FALSE]

Guard_Others ==
    UNCHANGED <<hook, dropdown, cms, popover, sheet, filt, modal, place,
                caption, toast, sidebar, tip>>

Guard_Frame == Guard_Others /\ ev' = NoEvent

\* React calls the component function (or the component calls the hook).
Guard_Render ==
    /\ guard.mounted
    /\ guard.outcome = "pending"
    /\ guard' = Guard_run(guard, 1)
    /\ Guard_Frame

\* A click on the element a trigger or close component returned.
Guard_Click ==
    /\ guard.mounted
    /\ guard.outcome = "returned"
    /\ guard.component \in {"SheetTrigger", "SheetClose",
                            "PopoverTrigger", "PopoverClose"}
    /\ guard' = [guard EXCEPT
                   !.open = IF guard.component \in {"SheetTrigger",
                                                    "PopoverTrigger"}
                            THEN ~guard.open ELSE FALSE]
    /\ Guard_Frame

\* A call of one of the functions useToast returned.
Guard_Notify ==
    /\ guard.mounted
    /\ guard.outcome = "returned"
    /\ guard.component = "useToast"
    /\ guard.toasts < MaxCalls
    /\ guard' = [guard EXCEPT !.toasts = @ + 1]
    /\ Guard_Frame

InitGuard ==
    /\ guard \in {Guard_Init(c, p, o) :
                    c \in Consumers, p \in SUBSET Contexts, o \in BOOLEAN}
    /\ hook = Unmounted /\ dropdown = Unmounted /\ cms = Unmounted
    /\ popover = Unmounted /\ sheet = Unmounted /\ filt = Unmounted
    /\ modal = Unmounted /\ place = Unmounted /\ ev = NoEvent
    /\ caption = Unmounted /\ toast = Unmounted /\ sidebar = Unmounted
    /\ tip = Unmounted

NextGuard == Guard_Render \/ Guard_Click \/ Guard_Notify

SpecGuard == InitGuard /\ [][NextGuard]_vars

\* C21: a Sheet or Popover sub-component rendered outside its parent, or
\* useToast called outside a ToastProvider, ends in a thrown error whose
\* message names the consumer and the missing wrapper; it returns no value
\* and leaves every piece of state as it was.
C21_MissingContextThrows ==
    [][(guard.mounted /\ Guard_requires(guard.component) \notin guard.provided)
           => /\ guard'.outcome = "threw"
              /\ guard'.message.component = guard.component
              /\ guard'.message.text # ""
              /\ guard' = [guard EXCEPT !.outcome = "threw",
                                        !.message = guard'.message]
      ]_vars

C21_Witness ==
    /\ guard.mounted
    /\ guard.component = "SheetTitle"
    /\ guard.provided = {"Sheet"}
    /\ guard.outcome = "threw"
    /\ guard.message = [component |-> "SheetTitle",
                        text |-> "must be used within <SheetContent />"]

\* ------------------------------------------------------------------------
\* CustomMultiSelect trigger label (renderSelectedItems).
\* ------------------------------------------------------------------------

\* What the trigger shows: a plain text, a text followed by "+n more", or
\* the JavaScript value undefined (nothing rendered).
Shown(kind, text, n) == [kind |-> kind, text |-> text, n |-> n]

NotRendered == Shown("none", <<>>, 0)

\* selectedNames[0]: the first element, or undefined when there is none.
Caption_first(selectedNames) ==
    IF Len(selectedNames) = 0 THEN Shown("undefined", <<>>, 0)
    ELSE Shown("text", selectedNames[1], 0)

renderSelectedItems(c) ==
    IF Len(c.selectedItems) = 0
    THEN Shown("text", IF c.placeholder # <<>> THEN c.placeholder
                       ELSE c.label, 0)
    ELSE LET picked(option) == option.id \in Elements(c.selectedItems)
             chosen == SelectSeq(c.options, picked)
             selectedNames == [i \in 1..Len(chosen) |-> chosen[i].name]
         IN  IF Len(selectedNames) = 1 \/ ~c.multiple
             THEN Caption_first(selectedNames)
             ELSE [Caption_first(selectedNames) EXCEPT
                     !.kind = IF @ = "text" THEN "more" ELSE "undefined more",
                     !.n = Len(selectedNames) - 1]

Caption_Init(n, multiple, selectedItems, placeholder) ==
    [mounted |-> TRUE,
     options |-> [i \in 1..n |-> [id |-> i, name |-> TextAt(i)]],
     multiple |-> multiple,
     selectedItems |-> selectedItems,
     placeholder |-> placeholder,
     label |-> <<"b", "b">>,
     output |-> NotRendered]

Caption_Frame ==
    /\ UNCHANGED <<hook, dropdown, cms, popover, sheet, filt, modal, place,
                   guard, toast, sidebar, tip>>
    /\ ev' = NoEvent

\* The component renders its trigger button.
Caption_Render ==
    /\ caption.mounted
    /\ caption.output = NotRendered
    /\ caption' = [caption EXCEPT !.output = renderSelectedItems(caption)]
    /\ Caption_Frame

\* The parent passes a new selectedItems array.
Caption_Select ==
    /\ caption.mounted
    /\ caption.output # NotRendered
    /\ \E selectedItems \in
           UNION {[1..k -> 1..MaxOptions] : k \in 0..MaxSelected} :
          /\ selectedItems # caption.selectedItems
          /\ caption' = [caption EXCEPT
                           !.selectedItems = selectedItems,
                           !.output = renderSelectedItems(
                               [caption EXCEPT
                                  !.selectedItems = selectedItems])]
    /\ Caption_Frame

InitCaption ==
    /\ caption \in
         {Caption_Init(n, multiple, selectedItems, placeholder) :
            n \in 0..MaxOptions, multiple \in BOOLEAN,
            selectedItems \in
                UNION {[1..k -> 1..MaxOptions] : k \in 0..MaxSelected},
            placeholder \in {<<>>, <<"a">>}}
    /\ hook = Unmounted /\ dropdown = Unmounted /\ cms = Unmounted
    /\ popover = Unmounted /\ sheet = Unmounted /\ filt = Unmounted
    /\ modal = Unmounted /\ place = Unmounted /\ ev = NoEvent
    /\ guard = Unmounted /\ toast = Unmounted /\ sidebar = Unmounted
    /\ tip = Unmounted

NextCaption == Caption_Render \/ Caption_Select

SpecCaption == InitCaption /\ [][NextCaption]_vars

\* The names of the options that carry the given id.
NamesOf(options, id) ==
    {options[i].name : i \in {j \in 1..Len(options) : options[j].id = id}}

\* C22: the rendered trigger label is the placeholder when nothing is
\* selected; the first selected item's name alone when one item is selected
\* or the component is single-select; and otherwise the first selected
\* item's name followed by "+N more" with N the number of selected items
\* minus one.
C22_TriggerLabel ==
    (caption.mounted /\ caption.output # NotRendered) =>
        LET sel == caption.selectedItems
            out == caption.output
        IN  IF Len(sel) = 0
            THEN caption.placeholder # <<>>
                    => out = Shown("text", caption.placeholder, 0)
            ELSE IF Len(sel) = 1 \/ ~caption.multiple
            THEN /\ out.kind = "text"
                 /\ out.text \in NamesOf(caption.options, sel[1])
            ELSE /\ out.kind = "more"
                 /\ out.text \in NamesOf(caption.options, sel[1])
                 /\ out.n = Len(sel) - 1

\* ------------------------------------------------------------------------
\* ToastProvider and Toast.  Time advances in ticks of 100 ms; a timer
\* carries the number of ticks left and runs when that number is 0.
\* ------------------------------------------------------------------------

MaxToasts == 2

MaxDuration == 2

MaxAge == 6

\* setTimeout(..., 300) of the exit animation, in ticks.
CloseDelay == 3

\* A timer that is not pending.
NoTimer == 0 - 1

Min(a, b) == IF a < b THEN a ELSE b

Countdown(left) == IF left > 0 THEN left - 1 ELSE left

\* A Toast right after its first render and its effect.
Toast_mount(id, duration) ==
    [id |-> id, duration |-> duration, steps |-> 0, isVisible |-> TRUE,
     interval |-> TRUE, hideTimer |-> duration, closeTimer |-> NoTimer,
     age |-> 0, touched |-> FALSE]

\* The width of the progress bar in percent.
Toast_progress(t) == (100 * (t.duration - t.steps)) \div t.duration

\* The effect of a Toast runs again: the cleanup clears the interval, the
\* close timer and the hide timer, then both timers are started afresh.
Toast_effect(t) ==
    [t EXCEPT !.interval = TRUE, !.hideTimer = t.duration,
              !.closeTimer = NoTimer]

\* ToastProvider renders: every Toast gets a new onClose function, which is
\* a dependency of its effect.
ToastProvider_render(toasts) ==
    [i \in 1..Len(toasts) |-> Toast_effect(toasts[i])]

addToast(p, duration) ==
    [p EXCEPT !.toasts = ToastProvider_render(
                             Append(p.toasts, Toast_mount(p.nextId, duration))),
              !.nextId = @ + 1]

Toast_ids(p) == {p.toasts[i].id : i \in 1..Len(p.toasts)}

\* onClose of the Toast with the given id, that is removeToast(id), with a
\* record of the call.
removeToast(p, id, age, duration, touched) ==
    LET kept(t) == t.id # id IN
    [p EXCEPT !.toasts = IF p.mounted
                         THEN ToastProvider_render(SelectSeq(p.toasts, kept))
                         ELSE @,
              !.closed = Append(@, [id |-> id, age |-> age,
                                    duration |-> duration,
                                    touched |-> touched,
                                    stale |-> id \notin Toast_ids(p)])]

\* No timer callback is due at this instant.
Toast_noneDue(p) ==
    /\ \A i \in 1..Len(p.toasts) :
           p.toasts[i].hideTimer # 0 /\ p.toasts[i].closeTimer # 0
    /\ \A m \in p.manual : m.left # 0

Toast_Frame ==
    /\ UNCHANGED <<hook, dropdown, cms, popover, sheet, filt, modal, place,
                   guard, caption, sidebar, tip>>
    /\ ev' = NoEvent

\* A consumer calls success / error / warning / info.
Toast_Add ==
    /\ toast.mounted
    /\ toast.nextId <= MaxToasts
    /\ Toast_noneDue(toast)
    /\ \E duration \in 1..MaxDuration :
          toast' = addToast(toast, duration)
    /\ Toast_Frame

\* hideTimer runs: the toast fades out and the close timer starts.
Toast_HideTimeout ==
    /\ toast.mounted
    /\ \E i \in 1..Len(toast.toasts) :
          /\ toast.toasts[i].hideTimer = 0
          /\ toast' = [toast EXCEPT !.toasts[i].isVisible = FALSE,
                                    !.toasts[i].hideTimer = NoTimer,
                                    !.toasts[i].closeTimer = CloseDelay]
    /\ Toast_Frame

\* closeTimer runs: onClose.
Toast_CloseTimeout ==
    /\ toast.mounted
    /\ \E i \in 1..Len(toast.toasts) :
          LET t == toast.toasts[i] IN
          /\ t.closeTimer = 0
          /\ toast' = removeToast(toast, t.id, t.age, t.duration, t.touched)
    /\ Toast_Frame

\* The user presses the close button of a visible toast.
Toast_ClickClose ==
    /\ toast.mounted
    /\ Toast_noneDue(toast)
    /\ Cardinality(toast.manual) < MaxTimers
    /\ \E i \in 1..Len(toast.toasts) :
          /\ toast.toasts[i].isVisible
          /\ toast' = [toast EXCEPT
                         !.toasts[i].isVisible = FALSE,
                         !.toasts[i].touched = TRUE,
                         !.manual = @ \cup {[id |-> toast.toasts[i].id,
                                             left |-> CloseDelay]}]
    /\ Toast_Frame

\* The timer the close button started runs: onClose.
Toast_ManualTimeout ==
    /\ toast # Unmounted
    /\ \E m \in toast.manual :
          /\ m.left = 0
          /\ LET here == {i \in 1..Len(toast.toasts) :
                            toast.toasts[i].id = m.id}
                 age == IF here = {} THEN MaxAge
                        ELSE toast.toasts[CHOOSE i \in here : TRUE].age
                 duration == IF here = {} THEN 0
                             ELSE toast.toasts[CHOOSE i \in here : TRUE].duration
             IN toast' = [removeToast(toast, m.id, age, duration, TRUE)
                            EXCEPT !.manual = @ \ {m}]
    /\ Toast_Frame

\* 100 ms in the life of one Toast: its timers come closer, and the 10 ms
\* interval lowers the progress until it finds it at 0 and clears itself.
Toast_tick(t) ==
    [t EXCEPT !.hideTimer = Countdown(@),
              !.closeTimer = Countdown(@),
              !.steps = IF t.interval /\ @ < t.duration THEN @ + 1 ELSE @,
              !.interval = @ /\ t.steps < t.duration,
              !.age = Min(@ + 1, MaxAge)]

\* 100 ms pass.
Toast_Tick ==
    /\ toast # Unmounted
    /\ Toast_noneDue(toast)
    /\ toast.toasts # <<>> \/ toast.manual # {}
    /\ toast' = [toast EXCEPT
         !.toasts = [i \in 1..Len(@) |-> Toast_tick(@[i])],
         !.manual = {[m EXCEPT !.left = Countdown(@)] : m \in @}]
    /\ Toast_Frame

\* The provider leaves the page: every Toast unmounts and its effect
\* cleanup runs.
Toast_Unmount ==
    /\ toast.mounted
    /\ Toast_noneDue(toast)
    /\ toast' = [toast EXCEPT !.mounted = FALSE, !.toasts = <<>>]
    /\ Toast_Frame

Toast_Init ==
    toast = [mounted |-> TRUE, toasts |-> <<>>, nextId |-> 1,
             manual |-> {}, closed |-> <<>>]

InitToast ==
    /\ Toast_Init
    /\ hook = Unmounted /\ dropdown = Unmounted /\ cms = Unmounted
    /\ popover = Unmounted /\ sheet = Unmounted /\ filt = Unmounted
    /\ modal = Unmounted /\ place = Unmounted /\ ev = NoEvent
    /\ guard = Unmounted /\ caption = Unmounted /\ sidebar = Unmounted
    /\ tip = Unmounted

Toast_Next ==
    \/ Toast_Add \/ Toast_HideTimeout \/ Toast_CloseTimeout
    \/ Toast_ClickClose \/ Toast_ManualTimeout \/ Toast_Tick
    \/ Toast_Unmount

SpecToast == InitToast /\ [][Toast_Next]_vars

\* C23: a toast the user never touched has its onClose called exactly when
\* its duration has elapsed, and only once: it is not on screen any longer
\* than its duration, and each recorded call happened at age = duration.
C23_AutoDismissAtDuration ==
    toast.mounted =>
        /\ \A i \in 1..Len(toast.toasts) :
               ~toast.toasts[i].touched
                   => toast.toasts[i].age <= toast.toasts[i].duration
        /\ \A j \in 1..Len(toast.closed) :
               ~toast.closed[j].touched
                   => /\ toast.closed[j].age = toast.closed[j].duration
                      /\ \A k \in 1..Len(toast.closed) :
                             toast.closed[k].id = toast.closed[j].id => k = j

\* The toast with the given id, as displayed by provider p.
Toast_byId(p, id) ==
    p.toasts[CHOOSE i \in 1..Len(p.toasts) : p.toasts[i].id = id]

\* C27: a step that adds a toast to the provider or removes one from it
\* leaves the pending hide and close timers of every other displayed toast
\* as they were.
C27_OtherToastsKeepTheirTimers ==
    [][(toast.mounted /\ toast'.mounted
            /\ Toast_ids(toast') # Toast_ids(toast))
           => \A id \in Toast_ids(toast) \cap Toast_ids(toast') :
                  /\ Toast_byId(toast', id).hideTimer
                         = Toast_byId(toast, id).hideTimer
                  /\ Toast_byId(toast', id).closeTimer
                         = Toast_byId(toast, id).closeTimer
      ]_vars

\* The listener keys an instance may hold.
ListenerKeys ==
    {"document:mousedown", "document:keydown", "window:scroll",
     "window:resize"}

AtMostOnePerKey(listeners) ==
    /\ BagToSet(listeners) \subseteq ListenerKeys
    /\ \A key \in ListenerKeys : CopiesIn(key, listeners) <= 1

\* C24: at every moment a Dropdown, CustomMultiSelect, Popover or Sheet
\* instance holds at most one handler per (event target, event type),
\* whatever sequence of open/close cycles, query edits and highlight moves
\* led there.
C24_NoListenerStacking ==
    /\ dropdown.mounted => AtMostOnePerKey(dropdown.listeners)
    /\ cms.mounted => AtMostOnePerKey(cms.listeners)
    /\ popover.mounted => AtMostOnePerKey(popover.listeners)
    /\ sheet.mounted => AtMostOnePerKey(sheet.listeners)

C24_Witness ==
    /\ dropdown.mounted
    /\ dropdown.isDropdownOpen
    /\ dropdown.searchQuery = <<"a">>
    /\ dropdown.highlightedIndex = Num(1)
    /\ Truthy(dropdown.selectedOption)
    /\ \A key \in ListenerKeys : CopiesIn(key, dropdown.listeners) = 1

\* ------------------------------------------------------------------------
\* InfoTooltip (src/src/components/Heading.tsx)
\* ------------------------------------------------------------------------

\* Where the mouse pointer is.
Tip_places == {"away", "icon", "tooltip"}

\* The callback of the timer handleMouseLeave starts.  On an unmounted
\* instance both refs are null and the callback still sets the state.
Tip_hoverCheck(t) ==
    LET tooltipHover == t.mounted /\ t.isTooltipVisible /\ t.pointer = "tooltip"
        iconHover == t.mounted /\ t.pointer = "icon"
    IN IF ~tooltipHover /\ ~iconHover
       THEN [t EXCEPT !.isTooltipVisible = FALSE]
       ELSE t

Tip_Frame ==
    /\ UNCHANGED <<hook, dropdown, cms, popover, sheet, filt, modal, place,
                   guard, caption, toast, sidebar>>
    /\ ev' = NoEvent

\* The pointer moves: onMouseLeave of the element it leaves starts a timer,
\* onMouseEnter of the element it enters shows the tooltip.
Tip_Move ==
    /\ tip.mounted
    /\ \E to \in Tip_places \ {tip.pointer} :
          /\ to = "tooltip" => tip.isTooltipVisible
          /\ tip.pointer # "away" => tip.timers < MaxTimers
          /\ tip' = [tip EXCEPT
                       !.pointer = to,
                       !.timers = IF tip.pointer # "away" THEN @ + 1 ELSE @,
                       !.isTooltipVisible = IF to # "away" THEN TRUE ELSE @]
    /\ Tip_Frame

\* handleClick on the icon.
Tip_Click ==
    /\ tip.mounted
    /\ tip.pointer = "icon"
    /\ tip' = [tip EXCEPT !.isTooltipVisible = ~@]
    /\ Tip_Frame

\* handleClickOutside: a mousedown away from the icon and the tooltip.
Tip_MouseDown ==
    /\ tip.mounted
    /\ tip.pointer = "away"
    /\ tip' = [tip EXCEPT !.isTooltipVisible = FALSE]
    /\ Tip_Frame

\* The 100 ms timer of handleMouseLeave runs.
Tip_HoverTimeout ==
    /\ tip # Unmounted
    /\ tip.timers > 0
    /\ tip' = [Tip_hoverCheck(tip) EXCEPT !.timers = @ - 1]
    /\ Tip_Frame

Tip_Unmount ==
    /\ tip.mounted
    /\ tip' = [tip EXCEPT !.mounted = FALSE, !.pointer = "away"]
    /\ Tip_Frame

Tip_Init ==
    tip = [mounted |-> TRUE, isTooltipVisible |-> FALSE, pointer |-> "away",
           timers |-> 0]

InitTip ==
    /\ Tip_Init
    /\ hook = Unmounted /\ dropdown = Unmounted /\ cms = Unmounted
    /\ popover = Unmounted /\ sheet = Unmounted /\ filt = Unmounted
    /\ modal = Unmounted /\ place = Unmounted /\ ev = NoEvent
    /\ guard = Unmounted /\ caption = Unmounted /\ toast = Unmounted
    /\ sidebar = Unmounted

Tip_Next ==
    \/ Tip_Move \/ Tip_Click \/ Tip_MouseDown \/ Tip_HoverTimeout
    \/ Tip_Unmount

\* ------------------------------------------------------------------------
\* The components that start timers: Modal, Dropdown, Toast, InfoTooltip.
\* ------------------------------------------------------------------------

InitTimers == InitModal \/ InitDropdown \/ InitToast \/ InitTip

NextTimers == Modal_Next \/ Dropdown_Next \/ Toast_Next \/ Tip_Next

SpecTimers == InitTimers /\ [][NextTimers]_vars

\* A step in which a timer callback runs although its component has
\* unmounted.
TimerRunsAfterUnmount ==
    \/ /\ modal # Unmounted /\ ~modal.mounted
       /\ modal.focusTimer /\ ~modal'.focusTimer
    \/ /\ dropdown # Unmounted /\ ~dropdown.mounted
       /\ dropdown'.blurTimers < dropdown.blurTimers
    \/ /\ tip # Unmounted /\ ~tip.mounted
       /\ tip'.timers < tip.timers
    \/ /\ toast # Unmounted /\ ~toast.mounted
       /\ Cardinality(toast'.manual) < Cardinality(toast.manual)

\* C25: once a Modal, Dropdown, InfoTooltip or Toast has unmounted, none of
\* the timers it started (initial focus, blur, hover, manual close) runs
\* its callback any more.
C25_NoTimerRunsAfterUnmount == [][~TimerRunsAfterUnmount]_vars

\* C26: every value a Dropdown passes to onSelect in a step taken from an
\* open panel (an option click or Enter) is an option of the list filtered
\* by the query of that moment; it is never undefined.
C26_CommittedValueIsAFilteredOption ==
    [][(dropdown.mounted /\ dropdown.isDropdownOpen)
           => \A j \in 1..Len(dropdown'.emitted) :
                  dropdown'.emitted[j].fn = "onSelect"
                      => /\ Truthy(dropdown'.emitted[j].arg)
                         /\ dropdown'.emitted[j].arg \in
                                Elements(Dropdown_filteredOptions(
                                    dropdown.options, dropdown.searchQuery))
      ]_vars

\* C28: when the timer started by an input blur runs while the input has
\* focus again and the panel is open, the panel stays open.
C28_BlurTimerSparesRefocusedInput ==
    [][(/\ dropdown.mounted
        /\ dropdown'.blurTimers < dropdown.blurTimers
        /\ dropdown.inputFocused
        /\ dropdown.isDropdownOpen)
           => dropdown'.isDropdownOpen
      ]_vars

\* C29: in a single-select CustomMultiSelect whose open panel lists at least
\* one option, the user can act on an option so that handleSelection runs
\* for it.
C29_SingleSelectCommitIsPossible ==
    (/\ cms.mounted /\ ~cms.multiple /\ cms.isOpen
     /\ Len(CMS_filteredOptions(cms.options, cms.searchTerm)) > 0)
        => ENABLED CMS_Commit

\* ------------------------------------------------------------------------
\* Sidebar user menu (src/src/components/TooltipWrapper.tsx)
\* ------------------------------------------------------------------------

\* The buttons of the user menu.
Sidebar_items == {"custom", "settings", "logout"}

\* The elements of the menu panel, which is rendered through a portal into
\* document.body: its buttons and its header.
Sidebar_menuPanel == Sidebar_items \cup {"header"}

\* The elements a pointer can go down on: the user button inside the user
\* section, the collapse button at the top of the sidebar, the menu, and
\* the rest of the page.
Sidebar_targets == {"user", "collapse", "outside"} \cup Sidebar_menuPanel

\* The element is in the DOM after the render of state b.
Sidebar_rendered(b, target) ==
    CASE target \in {"user", "collapse", "outside"} -> TRUE
      [] target = "header" -> b.userMenuOpen /\ ~b.collapsed
      [] target = "custom" -> b.userMenuOpen /\ ~b.collapsed /\ b.hasUserMenuItems
      [] target = "settings" ->
             b.userMenuOpen /\ ~b.collapsed /\ ~b.hasUserMenuItems
                 /\ b.showSettings
      [] OTHER ->
             b.userMenuOpen /\ ~b.collapsed /\ ~b.hasUserMenuItems
                 /\ b.showLogout

\* userMenuRef.current.contains(target): the ref is on the user section,
\* and the portal content is not among its DOM descendants.
Sidebar_contains(target) == target = "user"

\* handleClickOutside, registered on document only while userMenuOpen.
Sidebar_handleClickOutside(b, target) ==
    IF b.userMenuOpen /\ ~Sidebar_contains(target)
    THEN [b EXCEPT !.userMenuOpen = FALSE]
    ELSE b

\* onClick of the element.
Sidebar_onClick(b, target) ==
    CASE target = "user" -> [b EXCEPT !.userMenuOpen = ~@]
      [] target = "collapse" ->
             [b EXCEPT !.collapsed = ~@,
                       !.emitted = Append(@, [fn |-> "onCollapse",
                                              arg |-> ~b.collapsed])]
      [] target \in Sidebar_items ->
             [b EXCEPT !.userMenuOpen = FALSE,
                       !.emitted = Append(@, [fn |-> target, arg |-> FALSE])]
      [] OTHER -> b

Sidebar_event(b) == [b EXCEPT !.emitted = <<>>]

Sidebar_Others ==
    UNCHANGED <<hook, dropdown, cms, popover, sheet, filt, modal, place,
                guard, caption, toast, tip>>

\* The mouse button goes down on an element of the page.
Sidebar_MouseDown ==
    /\ sidebar.mounted
    /\ sidebar.pressed = "none"
    /\ \E target \in Sidebar_targets :
          /\ Sidebar_rendered(sidebar, target)
          /\ sidebar' = [Sidebar_handleClickOutside(Sidebar_event(sidebar),
                                                    target)
                           EXCEPT !.pressed = target]
          /\ ev' = Event("mousedown", target, FALSE, sidebar.userMenuOpen)
    /\ Sidebar_Others

\* The mouse button goes up: the browser dispatches click to the pressed
\* element if it is still in the document.
Sidebar_MouseUp ==
    /\ sidebar.mounted
    /\ sidebar.pressed # "none"
    /\ sidebar' = [(IF Sidebar_rendered(sidebar, sidebar.pressed)
                    THEN Sidebar_onClick(Sidebar_event(sidebar),
                                         sidebar.pressed)
                    ELSE Sidebar_event(sidebar))
                     EXCEPT !.pressed = "none"]
    /\ ev' = NoEvent
    /\ Sidebar_Others

\* Enter or Space on a focused button: click without a pointer-down.
Sidebar_KeyActivate ==
    /\ sidebar.mounted
    /\ sidebar.pressed = "none"
    /\ \E target \in {"user", "collapse"} \cup Sidebar_items :
          /\ Sidebar_rendered(sidebar, target)
          /\ sidebar' = Sidebar_onClick(Sidebar_event(sidebar), target)
    /\ ev' = NoEvent
    /\ Sidebar_Others

Sidebar_Init(collapsed, hasUserMenuItems, showSettings, showLogout) ==
    [mounted |-> TRUE, userMenuOpen |-> FALSE, collapsed |-> collapsed,
     hasUserMenuItems |-> hasUserMenuItems, showSettings |-> showSettings,
     showLogout |-> showLogout, pressed |-> "none", emitted |-> <<>>]

InitSidebar ==
    /\ sidebar \in {Sidebar_Init(c, u, s, l) :
                      c \in BOOLEAN, u \in BOOLEAN, s \in BOOLEAN,
                      l \in BOOLEAN}
    /\ hook = Unmounted /\ dropdown = Unmounted /\ cms = Unmounted
    /\ popover = Unmounted /\ sheet = Unmounted /\ filt = Unmounted
    /\ modal = Unmounted /\ place = Unmounted /\ ev = NoEvent
    /\ guard = Unmounted /\ caption = Unmounted /\ toast = Unmounted
    /\ tip = Unmounted

Sidebar_Next == Sidebar_MouseDown \/ Sidebar_MouseUp \/ Sidebar_KeyActivate

SpecSidebar == InitSidebar /\ [][Sidebar_Next]_vars

\* C30: a pointer-down while the user menu is open closes the menu exactly
\* when it lands outside both the user section and the menu panel, and
\* invokes no handler; and when the button then goes up on a pressed menu
\* item, that item's handler is invoked.
C30_MenuClosesOnlyOnOutsidePointerDown ==
    [][/\ (sidebar.mounted /\ sidebar.userMenuOpen /\ ev'.type = "mousedown")
            => /\ sidebar'.emitted = <<>>
               /\ ~sidebar'.userMenuOpen
                      <=> ev'.detail \notin {"user"} \cup Sidebar_menuPanel
       /\ (sidebar.mounted /\ sidebar.pressed \in Sidebar_items
               /\ sidebar'.pressed = "none")
            => sidebar'.emitted = <<[fn |-> sidebar.pressed, arg |-> FALSE]>>
      ]_vars

====
